---------------------------- MODULE Spec2Model ----------------------------
(***************************************************************************)
(* Durable execution core of TrustChain_Agent:                             *)
(*   backend/database/queue_db.py          the SQLite task queue           *)
(*   backend/database/idempotency_store.py the idempotency log             *)
(*   backend/services/queue_worker.py      the bounded worker dispatcher   *)
(*   backend/routers/swarm_ops.py          operator retry                  *)
(*                                                                         *)
(* Specifications:                                                         *)
(*   SpecKey    make_idempotency_key applied to two argument triples       *)
(*   SpecIdem   arbitrary calls of the idempotency store's operations      *)
(*   SpecReplay sequential attempts following the documented protocol      *)
(*   SpecClaim  threads racing claim_pending_task, statement by statement  *)
(*   Spec       enqueue, worker loop, _process_task units, operator retry  *)
(***************************************************************************)
EXTENDS Integers, Sequences, FiniteSets, Bags, TLC

VARIABLES
    \* ---- SpecKey: the inputs and results of make_idempotency_key
    keyIn,        \* <<triple1, triple2>>, each [task_id, tool_name, call_args]
    keyOut,       \* <<key1, key2>> once computed, <<>> before
    \* ---- idempotency_log table and its callers
    idem,         \* idempotency_key -> row (rows exist only for inserted keys)
    lastOp,       \* the most recent store call: its name, arguments, return value
    att,          \* SpecReplay: the current attempt of the protocol caller
    extCalls,     \* SpecReplay: key -> number of external calls issued
    \* ---- trigger_tasks table, the claim race, the dispatcher
    rows,         \* task id -> row of trigger_tasks
    nextId,       \* number of ids minted so far
    now,          \* datetime.utcnow(), as a logical clock
    dbLock,       \* holder of SQLite's write lock (a thread), or NoThread
    connTxn,      \* the event loop thread's connection: in_transaction
    callers,      \* SpecClaim: thread -> position inside claim_pending_task
    wpc,          \* _worker_loop: its position
    held,         \* _worker_loop: the task dict it claimed and has not dispatched
    sem,          \* _worker_semaphore._value
    units,        \* the _process_task coroutines created and not yet finished
    subs,         \* _sse_subscribers: subscriber -> its asyncio.Queue content
    resp,         \* the operator API's most recent response
    nRetry,       \* retries accepted so far
    \* ---- the audit chain
    chain,        \* the persisted log behind _tc.chain, oldest entry first
    signers,      \* who signs: run_agent coroutines and the middleware -> position
    tampered,     \* index of the entry edited in the stored log, 0 if none
    \* ---- vault tokens in shell commands
    allowed,      \* VAULT_ALLOWED_DOMAINS, parsed
    shellLog,     \* what PersistentShellTool.run did with each command
    \* ---- the process and its in-memory trigger queue
    boots,        \* number of times the server process was restarted
    jobs,         \* webhook request -> position of its handler and background task
    active_webhook_count,    \* triggers._active_webhook_count
    pending_webhook_count,   \* triggers._pending_webhook_count
    webhook_semaphore        \* triggers._webhook_semaphore._value

keyVars   == <<keyIn, keyOut>>
idemVars  == <<idem, lastOp, att, extCalls>>
queueVars == <<rows, nextId, now, dbLock, connTxn, callers, wpc, held, sem, units,
               subs, resp, nRetry>>
chainVars == <<chain, signers, tampered>>
shellVars == <<allowed, shellLog>>
trigVars  == <<jobs, active_webhook_count, pending_webhook_count, webhook_semaphore>>
sideVars  == <<chain, signers, tampered, allowed, shellLog, boots, trigVars>>
vars      == <<keyIn, keyOut, idem, lastOp, att, extCalls,
               rows, nextId, now, dbLock, connTxn, callers, wpc, held, sem, units,
               subs, resp, nRetry, chain, signers, tampered, allowed, shellLog,
               boots, jobs, active_webhook_count, pending_webhook_count,
               webhook_semaphore>>

-----------------------------------------------------------------------------
(* Bounds of the model.                                                    *)

MaxStrLen == 1      \* longest task id / tool name drawn in SpecKey
MaxTime == 1        \* the clock stops advancing here
MaxExtCalls == 3    \* SpecReplay stops issuing external calls here
MaxAttempts == 3    \* SpecReplay: attempts started per key
NumCallers == 3     \* SpecClaim: K, the racing threads
MaxTasks == 2       \* ids minted per run
MaxRetries == 1     \* operator retries per run
MaxRequeues == 2    \* SpecRetry: accepted retries per run
MaxChain == 3       \* SpecChain: entries signed per run
MaxCommands == 2    \* SpecShell: shell tool calls per run
MaxCrashes == 1     \* SpecCrash: process restarts per run
MaxWebhooks == 5    \* SpecTrigger: webhook requests per run

Null == "<NULL>"    \* SQL NULL / Python None in a text column
NoTime == -1        \* SQL NULL in a timestamp column

Min(S) == CHOOSE x \in S : \A y \in S : x <= y

-----------------------------------------------------------------------------
(* json.dumps / json.loads on the dicts the store handles.  A dict is the  *)
(* sequence of its items in insertion order; an item records whether its   *)
(* key and value are Python ints or strs.                                  *)

Item(k, kint, v, vint) == [k |-> k, kint |-> kint, v |-> v, vint |-> vint]

\* The order of Python's str comparison on the keys that occur.
KeyOrder == <<"1", "a", "b", "summary">>
KeyRank(k) == CHOOSE i \in 1..Len(KeyOrder) : KeyOrder[i] = k

RECURSIVE InsertSorted(_, _)
InsertSorted(it, s) ==
    IF s = <<>> THEN <<it>>
    ELSE IF KeyRank(it.k) < KeyRank(Head(s).k) THEN <<it>> \o s
    ELSE <<Head(s)>> \o InsertSorted(it, Tail(s))

RECURSIVE SortItems(_)
SortItems(d) == IF d = <<>> THEN <<>> ELSE InsertSorted(Head(d), SortItems(Tail(d)))

JsonItem(it) ==
    "\"" \o it.k \o "\": " \o (IF it.vint THEN it.v ELSE "\"" \o it.v \o "\"")

RECURSIVE JsonJoin(_)
JsonJoin(d) ==
    IF d = <<>> THEN ""
    ELSE IF Len(d) = 1 THEN JsonItem(d[1])
    ELSE JsonItem(d[1]) \o ", " \o JsonJoin(Tail(d))

JsonDumps(d, sort_keys) == "{" \o JsonJoin(IF sort_keys THEN SortItems(d) ELSE d) \o "}"


-----------------------------------------------------------------------------
(* idempotency_store.make_idempotency_key                                  *)

\* hashlib.sha256(text).hexdigest()[:12].  The digest is not computed: it is
\* an injective tag of the hashed text (no two texts of the model collide).
Sha256Hex12(text) == "sha256_12<" \o text \o ">"

make_idempotency_key_unsorted(task_id, tool_name, call_args) ==
    task_id \o "::" \o tool_name \o "::" \o Sha256Hex12(JsonDumps(call_args, FALSE))

make_idempotency_key(task_id, tool_name, call_args) ==
    task_id \o "::" \o tool_name \o "::" \o Sha256Hex12(JsonDumps(call_args, TRUE))

\* Inputs: task ids and tool names over an alphabet that holds the separator's
\* character, argument dicts over two keys in either insertion order.
KeyAlphabet == {"a", ":"}

RECURSIVE Strs(_)
Strs(n) == IF n = 0 THEN {""}
           ELSE Strs(n - 1) \cup {s \o c : s \in Strs(n - 1), c \in KeyAlphabet}

ArgItems ==
    {Item("a", FALSE, ToString(1), TRUE),
     Item("b", FALSE, ToString(2), TRUE),
     Item("b", FALSE, ToString(3), TRUE)}
ArgDicts ==
    {<<>>} \cup {<<i>> : i \in ArgItems}
           \cup {p \in ArgItems \X ArgItems : p[1].k # p[2].k}

KeyTriples == [task_id : Strs(MaxStrLen), tool_name : Strs(MaxStrLen), call_args : ArgDicts]

\* Python's dict equality: the same items, whatever the insertion order.
DictEq(d1, d2) == {d1[i] : i \in 1..Len(d1)} = {d2[i] : i \in 1..Len(d2)}

KeyOf(t) == make_idempotency_key(t.task_id, t.tool_name, t.call_args)


-----------------------------------------------------------------------------
(* idempotency_store: the idempotency_log table and its operations.  Each  *)
(* operation is an operator on the table's content; the actions below      *)
(* apply them.                                                             *)

\* Responses handed to mark_completed (Python dicts), and what json.loads
\* can give back (every key a str).
Responses ==
    { <<>>,
      <<Item("summary", FALSE, "s1", FALSE)>>,
      <<Item("1", TRUE, "s1", FALSE)>> }

JsonObjects ==
    {<<>>} \cup {<<Item(k, FALSE, v, FALSE)>> : k \in {"1", "summary"}, v \in {"s1", "s2"}}

JsonLoads(text) == CHOOSE d \in JsonObjects : JsonDumps(d, FALSE) = text

\* dict.get(k, default)
DictGet(d, k, default) ==
    IF \E i \in 1..Len(d) : d[i].k = k
    THEN d[CHOOSE i \in 1..Len(d) : d[i].k = k].v
    ELSE default

IdemRow(task_id, tool_name, status, response_body, created_at, completed_at) ==
    [task_id |-> task_id, tool_name |-> tool_name, status |-> status,
     response_body |-> response_body, created_at |-> created_at,
     completed_at |-> completed_at]

\* What check_idempotent returns: None, or {"__cached__": True, "response": ...}.
NoneRet == [cached |-> FALSE, response_none |-> TRUE, response |-> <<>>]
CachedRet(body) ==
    [cached |-> TRUE, response_none |-> body = Null,
     response |-> IF body = Null THEN <<>> ELSE JsonLoads(body)]

check_idempotent_started_too(store, key) ==
    IF key \notin DOMAIN store THEN NoneRet
    ELSE CachedRet(store[key].response_body)

check_idempotent_never(store, key) == NoneRet

check_idempotent(store, key) ==
    IF key \notin DOMAIN store THEN NoneRet
    ELSE IF store[key].status = "COMPLETED" THEN CachedRet(store[key].response_body)
    ELSE NoneRet

\* INSERT OR REPLACE instead of INSERT OR IGNORE.
mark_started_replace(store, key, task_id, tool_name, t) ==
    [store |-> [k \in DOMAIN store \cup {key} |->
                  IF k = key THEN IdemRow(task_id, tool_name, "STARTED", Null, t, NoTime)
                  ELSE store[k]],
     raised |-> FALSE]

\* A plain INSERT: the primary key raises IntegrityError.
mark_started_plain(store, key, task_id, tool_name, t) ==
    IF key \in DOMAIN store THEN [store |-> store, raised |-> TRUE]
    ELSE [store |-> store @@ (key :> IdemRow(task_id, tool_name, "STARTED", Null, t, NoTime)),
          raised |-> FALSE]

mark_started(store, key, task_id, tool_name, t) ==
    [store |-> IF key \in DOMAIN store THEN store
               ELSE store @@ (key :> IdemRow(task_id, tool_name, "STARTED", Null, t, NoTime)),
     raised |-> FALSE]

\* UPDATE ... WHERE idempotency_key = ? AND status = 'STARTED'.
mark_completed_started_only(store, key, response, t) ==
    IF key \in DOMAIN store /\ store[key].status = "STARTED"
    THEN [store EXCEPT ![key].status = "COMPLETED",
                       ![key].response_body = JsonDumps(response, FALSE),
                       ![key].completed_at = t]
    ELSE store

mark_completed(store, key, response, t) ==
    IF key \in DOMAIN store
    THEN [store EXCEPT ![key].status = "COMPLETED",
                       ![key].response_body = JsonDumps(response, FALSE),
                       ![key].completed_at = t]
    ELSE store

\* Every order of the elements of S in which f never decreases.
RECURSIVE OrderedBy(_, _)
OrderedBy(S, f) ==
    IF S = {} THEN {<<>>}
    ELSE LET firsts == {x \in S : \A y \in S : f[x] <= f[y]}
         IN  UNION {{<<x>> \o rest : rest \in OrderedBy(S \ {x}, f)} : x \in firsts}

\* The query without its status filter.
get_completed_steps_any_status(store, task_id) ==
    LET done == {k \in DOMAIN store : store[k].task_id = task_id}
        at   == [k \in done |-> store[k].completed_at]
        step(k) == [tool |-> store[k].tool_name,
                    result_summary |->
                        DictGet(IF store[k].response_body = Null THEN <<>>
                                ELSE JsonLoads(store[k].response_body),
                                "summary", "completed"),
                    completed_at |-> store[k].completed_at]
    IN  {[i \in 1..Len(ks) |-> step(ks[i])] : ks \in OrderedBy(done, at)}

\* get_completed_steps: the lists the query may return (ORDER BY completed_at
\* leaves the order of equal timestamps open).
get_completed_steps(store, task_id) ==
    LET done == {k \in DOMAIN store :
                    store[k].task_id = task_id /\ store[k].status = "COMPLETED"}
        at   == [k \in done |-> store[k].completed_at]
        step(k) == [tool |-> store[k].tool_name,
                    result_summary |->
                        DictGet(IF store[k].response_body = Null THEN <<>>
                                ELSE JsonLoads(store[k].response_body),
                                "summary", "completed"),
                    completed_at |-> store[k].completed_at]
    IN  {[i \in 1..Len(ks) |-> step(ks[i])] : ks \in OrderedBy(done, at)}

-----------------------------------------------------------------------------
(* Values of the variables a specification does not use.                   *)

EmptyFn == [x \in {} |-> 0]
NoThread == 0
NoTask == [id |-> 0, task_slug |-> "", payload |-> [instruction |-> <<>>]]
NoOp == [op |-> "none", key |-> "", task_id |-> "", tool_name |-> "",
         response |-> <<>>, ret |-> NoneRet, raised |-> FALSE, prev_body |-> Null,
         steps |-> <<>>]
NoResp == [op |-> "none", task_id |-> 0, code |-> 0, injected |-> 0]
NoAttempt == [pc |-> "idle", call |-> 0, response |-> <<>>, started |-> 0]

\* triggers.MAX_CONCURRENT_WEBHOOKS is 10 and triggers.MAX_QUEUE_SIZE is 1000;
\* the model runs a smaller pool behind a shorter queue.
MAX_CONCURRENT_WEBHOOKS == 1
MAX_QUEUE_SIZE == 2

\* queue_worker.MAX_CONCURRENT_WORKERS is 10; the model runs a smaller pool.
MAX_CONCURRENT_WORKERS == 2

KeyIdle == keyIn = <<>> /\ keyOut = <<>>
ChainIdle == chain = <<>> /\ signers = EmptyFn /\ tampered = 0
ShellIdle == allowed = {} /\ shellLog = <<>>
ProcIdle == boots = 0
TrigIdle ==
    /\ jobs = EmptyFn /\ active_webhook_count = 0 /\ pending_webhook_count = 0
    /\ webhook_semaphore = MAX_CONCURRENT_WEBHOOKS
SideIdle == ChainIdle /\ ShellIdle /\ ProcIdle /\ TrigIdle
IdemIdle == idem = EmptyFn /\ lastOp = NoOp /\ att = NoAttempt /\ extCalls = EmptyFn
QueueIdle ==
    /\ rows = EmptyFn /\ nextId = 0 /\ now = 0 /\ dbLock = NoThread /\ connTxn = FALSE
    /\ callers = EmptyFn /\ wpc = "poll" /\ held = NoTask
    /\ sem = MAX_CONCURRENT_WORKERS /\ units = EmptyBag /\ subs = EmptyFn
    /\ resp = NoResp /\ nRetry = 0

queueNoClock == <<rows, nextId, dbLock, connTxn, callers, wpc, held, sem, units, subs,
                  resp, nRetry>>

-----------------------------------------------------------------------------
(* SpecKey: make_idempotency_key on two triples.                           *)

InitKey ==
    /\ keyIn \in KeyTriples \X KeyTriples
    /\ keyOut = <<>>
    /\ IdemIdle /\ QueueIdle /\ SideIdle

ComputeKeys ==
    /\ keyOut = <<>>
    /\ keyOut' = <<KeyOf(keyIn[1]), KeyOf(keyIn[2])>>
    /\ UNCHANGED <<keyIn, idemVars, queueVars, sideVars>>

NextKey == ComputeKeys

SpecKey == InitKey /\ [][NextKey]_vars

-----------------------------------------------------------------------------
(* SpecIdem: any caller, any sequence of store calls.                      *)

IdemKeys == {"k1", "k2"}
IdemTasks == {"t1", "t2"}
IdemTools == {"toolA", "toolB"}

Op(op, key, task_id, tool_name, response, ret, raised) ==
    [op |-> op, key |-> key, task_id |-> task_id, tool_name |-> tool_name,
     response |-> response, ret |-> ret, raised |-> raised, prev_body |-> Null,
     steps |-> <<>>]

\* The response_body the key's row held when a call was made.
PrevBody(store, key) == IF key \in DOMAIN store THEN store[key].response_body ELSE Null

idemRest == <<keyVars, sideVars, att, extCalls, queueNoClock>>

CallCheck(key) ==
    /\ lastOp' = Op("check", key, "", "", <<>>, check_idempotent(idem, key), FALSE)
    /\ UNCHANGED <<idem, now, idemRest>>

CallMarkStarted(key, task_id, tool_name) ==
    LET r == mark_started(idem, key, task_id, tool_name, now)
    IN  /\ idem' = r.store
        /\ lastOp' = Op("mark_started", key, task_id, tool_name, <<>>, NoneRet, r.raised)
        /\ UNCHANGED <<now, idemRest>>

CallMarkCompleted(key, response) ==
    /\ idem' = mark_completed(idem, key, response, now)
    /\ lastOp' = [Op("mark_completed", key, "", "", response, NoneRet, FALSE)
                      EXCEPT !.prev_body = PrevBody(idem, key)]
    /\ UNCHANGED <<now, idemRest>>

\* datetime.utcnow() moves on between two calls, or does not.
IdemTick ==
    /\ now < MaxTime
    /\ now' = now + 1
    /\ UNCHANGED <<idem, lastOp, idemRest>>

InitIdem == KeyIdle /\ IdemIdle /\ QueueIdle /\ SideIdle

NextIdem ==
    \/ \E k \in IdemKeys : CallCheck(k)
    \/ \E k \in IdemKeys, t \in IdemTasks, tool \in IdemTools : CallMarkStarted(k, t, tool)
    \/ \E k \in IdemKeys, r \in Responses : CallMarkCompleted(k, r)
    \/ IdemTick

SpecIdem == InitIdem /\ [][NextIdem]_vars

-----------------------------------------------------------------------------
(* SpecSteps: get_completed_steps applied to the tables that mark_started  *)
(* and mark_completed calls can leave: four keys, three of task "t1" and   *)
(* one of task "t2", each absent, STARTED or COMPLETED.                    *)

StepKeys == {"k1", "k2", "k3", "k4"}
StepTask(k) == IF k = "k4" THEN "t2" ELSE "t1"
StepTool(k) == "tool_" \o k

\* What happened to a key: nothing, mark_started at s, or mark_started at s
\* and mark_completed at c.
StepHistories ==
    {[kind |-> "absent", s |-> 0, c |-> 0]}
      \cup {[kind |-> "started", s |-> s, c |-> 0] : s \in 0..MaxTime}
      \cup {[kind |-> "completed", s |-> h[1], c |-> h[2]] :
               h \in {x \in (0..MaxTime) \X (0..MaxTime) : x[1] <= x[2]}}

StepResponse == <<Item("summary", FALSE, "s1", FALSE)>>

\* The table after the calls of history h were made for key k.
StepApply(store, k, h) ==
    IF h.kind = "absent" THEN store
    ELSE LET started == mark_started(store, k, StepTask(k), StepTool(k), h.s).store
         IN  IF h.kind = "started" THEN started
             ELSE mark_completed(started, k, StepResponse, h.c)

StepStore(hist) ==
    StepApply(StepApply(StepApply(StepApply(EmptyFn, "k1", hist["k1"]),
                                  "k2", hist["k2"]), "k3", hist["k3"]),
              "k4", hist["k4"])

CallGetCompletedSteps(task_id) ==
    /\ lastOp.op = "none"
    /\ \E steps \in get_completed_steps(idem, task_id) :
          lastOp' = [Op("get_completed_steps", "", task_id, "", <<>>, NoneRet, FALSE)
                        EXCEPT !.steps = steps]
    /\ UNCHANGED <<idem, att, extCalls, keyVars, queueVars, sideVars>>

InitSteps ==
    /\ KeyIdle /\ QueueIdle /\ SideIdle
    /\ idem \in {StepStore(hist) : hist \in [StepKeys -> StepHistories]}
    /\ lastOp = NoOp /\ att = NoAttempt /\ extCalls = EmptyFn

NextSteps == \E t \in IdemTasks : CallGetCompletedSteps(t)

SpecSteps == InitSteps /\ [][NextSteps]_vars

-----------------------------------------------------------------------------
(* SpecReplay: one caller following the module's documented protocol       *)
(* (check; if None: mark_started, the external call, mark_completed), one  *)
(* attempt at a time, any attempt cut short by a crash.                    *)

ReplayCalls ==
    << [task_id |-> "t1", tool_name |-> "toolA",
        call_args |-> <<Item("a", FALSE, "1", TRUE)>>],
       [task_id |-> "t1", tool_name |-> "toolB",
        call_args |-> <<Item("a", FALSE, "1", TRUE)>>] >>

ReplayKey(c) == KeyOf(ReplayCalls[c])
ReplayKeys == {ReplayKey(c) : c \in 1..Len(ReplayCalls)}

replayRest == <<keyVars, sideVars, queueNoClock>>

AttemptBegin(c) ==
    /\ att.pc = "idle"
    /\ att.started < MaxAttempts
    /\ att' = [pc |-> "check", call |-> c, response |-> <<>>, started |-> att.started + 1]
    /\ UNCHANGED <<idem, lastOp, extCalls, now, replayRest>>

AttemptCheck ==
    /\ att.pc = "check"
    /\ LET ret == check_idempotent(idem, ReplayKey(att.call))
       IN  /\ lastOp' = Op("check", ReplayKey(att.call), "", "", <<>>, ret, FALSE)
           /\ att' = [att EXCEPT !.pc = IF ret.cached THEN "idle" ELSE "start"]
    /\ UNCHANGED <<idem, extCalls, now, replayRest>>

AttemptMarkStarted ==
    /\ att.pc = "start"
    /\ LET c == ReplayCalls[att.call]
           r == mark_started(idem, ReplayKey(att.call), c.task_id, c.tool_name, now)
       IN  /\ idem' = r.store
           /\ lastOp' = Op("mark_started", ReplayKey(att.call), c.task_id, c.tool_name,
                           <<>>, NoneRet, r.raised)
           /\ att' = [att EXCEPT !.pc = IF r.raised THEN "idle" ELSE "call"]
    /\ UNCHANGED <<extCalls, now, replayRest>>

\* The external call goes out and answers.
AttemptCall ==
    /\ att.pc = "call"
    /\ extCalls[ReplayKey(att.call)] < MaxExtCalls
    /\ \E r \in Responses :
          att' = [att EXCEPT !.pc = "complete", !.response = r]
    /\ extCalls' = [extCalls EXCEPT ![ReplayKey(att.call)] = @ + 1]
    /\ UNCHANGED <<idem, lastOp, now, replayRest>>

AttemptMarkCompleted ==
    /\ att.pc = "complete"
    /\ idem' = mark_completed(idem, ReplayKey(att.call), att.response, now)
    /\ lastOp' = [Op("mark_completed", ReplayKey(att.call), "", "", att.response,
                       NoneRet, FALSE)
                      EXCEPT !.prev_body = PrevBody(idem, ReplayKey(att.call))]
    /\ att' = [att EXCEPT !.pc = "idle", !.response = <<>>]
    /\ UNCHANGED <<extCalls, now, replayRest>>

\* The process dies inside an attempt; the table is on disk and survives.
AttemptCrash ==
    /\ att.pc # "idle"
    /\ att' = [att EXCEPT !.pc = "idle", !.response = <<>>]
    /\ UNCHANGED <<idem, lastOp, extCalls, now, replayRest>>

ReplayTick ==
    /\ now < MaxTime
    /\ now' = now + 1
    /\ UNCHANGED <<idem, lastOp, att, extCalls, replayRest>>

InitReplay ==
    /\ KeyIdle /\ QueueIdle /\ SideIdle
    /\ idem = EmptyFn /\ lastOp = NoOp /\ att = NoAttempt
    /\ extCalls = [k \in ReplayKeys |-> 0]

NextReplay ==
    \/ \E c \in 1..Len(ReplayCalls) : AttemptBegin(c)
    \/ AttemptCheck
    \/ AttemptMarkStarted
    \/ AttemptCall
    \/ AttemptMarkCompleted
    \/ AttemptCrash
    \/ ReplayTick

SpecReplay == InitReplay /\ [][NextReplay]_vars

-----------------------------------------------------------------------------
(* queue_db: the trigger_tasks table and its operations.                   *)

Statuses == {"PENDING", "RUNNING", "SUCCESS", "FAILED"}
Slugs == {"order"}

\* payload["instruction"] is text; the model keeps it as the sequence of its
\* parts: the trigger's instruction, then every note a retry appended.
BasePart == [kind |-> "base", steps |-> <<>>]
RetryNote(steps) == [kind |-> "retry_note", steps |-> steps]
Payload(instruction) == [instruction |-> instruction]

TaskRow(task_slug, payload, status, result, error, created_at, updated_at) ==
    [task_slug |-> task_slug, payload |-> payload, status |-> status,
     result |-> result, error |-> error,
     created_at |-> created_at, updated_at |-> updated_at]

\* enqueue_task: INSERT a PENDING row under a fresh id.
enqueue_task(table, id, task_slug, payload, t) ==
    table @@ (id :> TaskRow(task_slug, payload, "PENDING", Null, Null, t, t))

\* SELECT id ... WHERE status = 'PENDING' ORDER BY created_at ASC LIMIT 1:
\* the ids the query may return.
PendingIds(table) == {i \in DOMAIN table : table[i].status = "PENDING"}

SelectAnyPending(table) == PendingIds(table)

SelectOldestPending(table) ==
    {i \in PendingIds(table) :
        \A j \in PendingIds(table) : table[i].created_at <= table[j].created_at}

\* UPDATE trigger_tasks SET status = 'RUNNING', updated_at = ? WHERE id = ?
claim_update_forgets_status(table, id, t) ==
    [table EXCEPT ![id].updated_at = t]

claim_update(table, id, t) ==
    [table EXCEPT ![id].status = "RUNNING", ![id].updated_at = t]

\* The dict claim_pending_task returns.
TaskDict(table, id) ==
    [id |-> id, task_slug |-> table[id].task_slug, payload |-> table[id].payload]

\* claim_pending_task run as one transaction: the outcomes it may have.
claim_pending_task(table, t) ==
    IF PendingIds(table) = {} THEN {[rows |-> table, ret |-> NoTask]}
    ELSE {[rows |-> claim_update(table, i, t), ret |-> TaskDict(table, i)] :
             i \in SelectOldestPending(table)}

\* The broadcast at the end of update_task_status: put_nowait on every
\* subscriber's queue, dropping the subscribers whose queue is full.
SSE_QUEUE_MAXSIZE == 2
Event(task_id, status) == [task_id |-> task_id, status |-> status]

\* A broadcast that skips a full queue and leaves it subscribed.
BroadcastKeepsFull(queues, event) ==
    [q \in DOMAIN queues |->
        IF Len(queues[q]) < SSE_QUEUE_MAXSIZE
        THEN Append(queues[q], event) ELSE queues[q]]

Broadcast(queues, event) ==
    [q \in {x \in DOMAIN queues : Len(queues[x]) < SSE_QUEUE_MAXSIZE} |->
        Append(queues[q], event)]

\* An UPDATE that keeps the result of a task that is already terminal.
update_task_status_first_wins(table, id, status, result, error, t) ==
    IF id \in DOMAIN table /\ table[id].status \notin {"SUCCESS", "FAILED"}
    THEN [table EXCEPT ![id].status = status, ![id].result = result,
                       ![id].error = error, ![id].updated_at = t]
    ELSE table

\* An UPDATE that binds str(error): None is stored as the text "None".
update_task_status_str_error(table, id, status, result, error, t) ==
    IF id \in DOMAIN table
    THEN [table EXCEPT ![id].status = status, ![id].result = result,
                       ![id].error = IF error = Null THEN "None" ELSE error,
                       ![id].updated_at = t]
    ELSE table

\* An INSERT OR REPLACE in place of the UPDATE: a missing row is created.
update_task_status_upsert(table, id, status, result, error, t) ==
    IF id \in DOMAIN table
    THEN [table EXCEPT ![id].status = status, ![id].result = result,
                       ![id].error = error, ![id].updated_at = t]
    ELSE [i \in DOMAIN table \cup {id} |->
             IF i = id THEN TaskRow("", Payload(<<>>), status, result, error, t, t)
             ELSE table[i]]

\* update_task_status: the UPDATE (no row, no change).
update_task_status(table, id, status, result, error, t) ==
    IF id \in DOMAIN table
    THEN [table EXCEPT ![id].status = status, ![id].result = result,
                       ![id].error = error, ![id].updated_at = t]
    ELSE table

-----------------------------------------------------------------------------
(* SpecClaim: NumCallers threads, each with its own connection, call       *)
(* claim_pending_task once, statement by statement, while another thread   *)
(* enqueues.  SQLite's write lock is what BEGIN IMMEDIATE takes; a thread  *)
(* that finds it taken waits in the busy handler.                          *)

Threads == 1..NumCallers
Caller(pc, row, t, ret, born) == [pc |-> pc, row |-> row, t |-> t, ret |-> ret, born |-> born]

claimRest == <<keyVars, sideVars, idemVars, connTxn, wpc, held, sem, units, subs, resp, nRetry>>

\* BEGIN without IMMEDIATE takes no lock before the SELECT.
BeginDeferred(lock, c) == [granted |-> TRUE, lock |-> lock]

\* cursor.execute("BEGIN IMMEDIATE")
BeginImmediate(lock, c) == [granted |-> lock = NoThread, lock |-> c]

ClaimBegin(c) ==
    /\ callers[c].pc = "idle"
    /\ BeginImmediate(dbLock, c).granted
    /\ dbLock' = BeginImmediate(dbLock, c).lock
    /\ callers' = [callers EXCEPT ![c].pc = "select", ![c].born = nextId]
    /\ UNCHANGED <<rows, nextId, now, claimRest>>

ClaimSelect(c) ==
    /\ callers[c].pc = "select"
    /\ IF PendingIds(rows) = {}
       THEN callers' = [callers EXCEPT ![c].pc = "commit_none"]
       ELSE \E i \in SelectOldestPending(rows) :
               callers' = [callers EXCEPT ![c].pc = "update", ![c].row = i]
    /\ UNCHANGED <<rows, nextId, now, dbLock, claimRest>>

\* The UPDATE runs inside the transaction: other connections see it at COMMIT.
ClaimUpdate(c) ==
    /\ callers[c].pc = "update"
    /\ callers' = [callers EXCEPT ![c].pc = "commit", ![c].t = now]
    /\ UNCHANGED <<rows, nextId, now, dbLock, claimRest>>

ClaimCommit(c) ==
    /\ callers[c].pc = "commit"
    /\ rows' = claim_update(rows, callers[c].row, callers[c].t)
    /\ dbLock' = IF dbLock = c THEN NoThread ELSE dbLock
    /\ callers' = [callers EXCEPT ![c].pc = "done",
                                  ![c].ret = TaskDict(rows, callers[c].row)]
    /\ UNCHANGED <<nextId, now, claimRest>>

ClaimCommitNone(c) ==
    /\ callers[c].pc = "commit_none"
    /\ dbLock' = IF dbLock = c THEN NoThread ELSE dbLock
    /\ callers' = [callers EXCEPT ![c].pc = "done", ![c].ret = NoTask]
    /\ UNCHANGED <<rows, nextId, now, claimRest>>

\* enqueue_task on another connection: its INSERT needs the write lock.
ClaimEnqueue(slug) ==
    /\ nextId < MaxTasks
    /\ dbLock = NoThread
    /\ rows' = enqueue_task(rows, nextId + 1, slug, Payload(<<BasePart>>), now)
    /\ nextId' = nextId + 1
    /\ UNCHANGED <<now, dbLock, callers, claimRest>>

ClaimTick ==
    /\ now < MaxTime
    /\ now' = now + 1
    /\ UNCHANGED <<rows, nextId, dbLock, callers, claimRest>>

InitClaim ==
    /\ KeyIdle /\ IdemIdle /\ SideIdle
    /\ rows = EmptyFn /\ nextId = 0 /\ now = 0 /\ dbLock = NoThread /\ connTxn = FALSE
    /\ callers = [c \in Threads |-> Caller("idle", 0, 0, NoTask, 0)]
    /\ wpc = "poll" /\ held = NoTask
    /\ sem = MAX_CONCURRENT_WORKERS /\ units = EmptyBag /\ subs = EmptyFn
    /\ resp = NoResp /\ nRetry = 0

NextClaim ==
    \/ \E c \in Threads : ClaimBegin(c)
    \/ \E c \in Threads : ClaimSelect(c)
    \/ \E c \in Threads : ClaimUpdate(c)
    \/ \E c \in Threads : ClaimCommit(c)
    \/ \E c \in Threads : ClaimCommitNone(c)
    \/ \E slug \in Slugs : ClaimEnqueue(slug)
    \/ ClaimTick

SpecClaim == InitClaim /\ [][NextClaim]_vars

(* SpecClaimFault: the same callers over a store whose statements may      *)
(* raise: BEGIN IMMEDIATE when the write lock stays taken past the busy    *)
(* timeout, any later statement or the COMMIT on an sqlite3 error.         *)

\* BEGIN IMMEDIATE raises "database is locked": it is outside the try, and
\* no transaction was begun.
ClaimBeginRaises(c) ==
    /\ callers[c].pc = "idle"
    /\ ~BeginImmediate(dbLock, c).granted
    /\ callers' = [callers EXCEPT ![c].pc = "raised"]
    /\ UNCHANGED <<rows, nextId, now, dbLock, claimRest>>

\* An except branch that commits what the transaction holds.
ClaimRaisesCommits(c) ==
    /\ callers[c].pc \in {"select", "update", "commit"}
    /\ rows' = IF callers[c].pc = "commit"
               THEN claim_update(rows, callers[c].row, callers[c].t)
               ELSE rows
    /\ dbLock' = IF dbLock = c THEN NoThread ELSE dbLock
    /\ callers' = [callers EXCEPT ![c].pc = "raised"]
    /\ UNCHANGED <<nextId, now, claimRest>>

\* The SELECT, the UPDATE or the COMMIT raises: except Exception runs
\* conn.rollback(), which drops the UPDATE and the write lock, and re-raises.
ClaimRaises(c) ==
    /\ callers[c].pc \in {"select", "update", "commit"}
    /\ dbLock' = IF dbLock = c THEN NoThread ELSE dbLock
    /\ callers' = [callers EXCEPT ![c].pc = "raised"]
    /\ UNCHANGED <<rows, nextId, now, claimRest>>

NextClaimFault ==
    \/ \E c \in Threads : ClaimBegin(c)
    \/ \E c \in Threads : ClaimBeginRaises(c)
    \/ \E c \in Threads : ClaimSelect(c)
    \/ \E c \in Threads : ClaimUpdate(c)
    \/ \E c \in Threads : ClaimCommit(c)
    \/ \E c \in Threads : ClaimCommitNone(c)
    \/ \E c \in Threads : ClaimRaises(c)
    \/ \E slug \in Slugs : ClaimEnqueue(slug)

SpecClaimFault == InitClaim /\ [][NextClaimFault]_vars

-----------------------------------------------------------------------------
(* Spec: the running service.  Everything here runs on the one event loop  *)
(* thread and its one connection: a step is what a coroutine does between  *)
(* two awaits.  The clock stands still in this specification: all tasks    *)
(* carry the same created_at, so a claim may take any PENDING task, which   *)
(* covers every order the timestamps could impose.                          *)

\* f"trigger_{task_slug}_{uuid}": the id as the text worker and store use.
TaskIdStr(id) == "trigger_" \o rows[id].task_slug \o "_" \o ToString(id)

\* The external steps an execution callback may perform for its task.
AgentTools == {"toolA"}
AgentArgs == <<Item("a", FALSE, "1", TRUE)>>
AgentResponses == {<<>>, <<Item("summary", FALSE, "s1", FALSE)>>}

\* A dispatched _process_task: its task, where it stands, the instruction it
\* built, and how it ended: "no" while it has not, run_agent's task.status
\* ("completed", "failed") when run_agent returned, "raised" when the except
\* branch ran, "write_raised" when the unit ended with an exception of its own.
Unit(task, pc, enriched) ==
    [task |-> task, pc |-> pc, enriched |-> enriched, ended |-> "no"]
Ended(u, how) == [u EXCEPT !.pc = "done", !.ended = how]
NoEnriched == [instruction |-> <<>>, retry_context |-> <<>>]

\* The dispatched _process_task units are kept as a bag: asyncio tasks have no
\* order, and two units may be equal in everything the model records.
OneUnit(u) == SetToBag({u})
UnitsNow == BagToSet(units)

specRest == <<keyVars, sideVars, lastOp, att, extCalls, dbLock, connTxn, callers>>

\* A trigger enqueues a task.
Enqueue(slug) ==
    /\ nextId < MaxTasks
    /\ rows' = enqueue_task(rows, nextId + 1, slug, Payload(<<BasePart>>), now)
    /\ nextId' = nextId + 1
    /\ UNCHANGED <<idem, now, wpc, held, sem, units, subs, resp, nRetry, specRest>>

\* _worker_loop: claim_pending_task() found nothing; await asyncio.sleep(2.0).
WorkerPollEmpty ==
    /\ wpc = "poll"
    /\ PendingIds(rows) = {}
    /\ wpc' = "sleep"
    /\ UNCHANGED <<idem, rows, nextId, now, held, sem, units, subs, resp, nRetry, specRest>>

WorkerWake ==
    /\ wpc = "sleep"
    /\ wpc' = "poll"
    /\ UNCHANGED <<idem, rows, nextId, now, held, sem, units, subs, resp, nRetry, specRest>>

\* The dispatch without "await _worker_semaphore.acquire()".
WorkerPollDispatchNoAcquire ==
    /\ wpc = "poll"
    /\ sem > 0
    /\ \E c \in claim_pending_task(rows, now) :
          /\ c.ret # NoTask
          /\ rows' = c.rows
          /\ units' = units (+) OneUnit(Unit(c.ret, "created", NoEnriched))
    /\ UNCHANGED <<idem, nextId, now, wpc, held, sem, subs, resp, nRetry, specRest>>

\* _worker_loop: a task is claimed and a slot is free: acquire() returns
\* without suspending, create_task schedules _process_task, the loop goes on.
WorkerPollDispatch ==
    /\ wpc = "poll"
    /\ sem > 0
    /\ \E c \in claim_pending_task(rows, now) :
          /\ c.ret # NoTask
          /\ rows' = c.rows
          /\ units' = units (+) OneUnit(Unit(c.ret, "created", NoEnriched))
    /\ sem' = sem - 1
    /\ UNCHANGED <<idem, nextId, now, wpc, held, subs, resp, nRetry, specRest>>

\* A loop that does not wait for the slot: with the pool full it keeps the
\* claimed task aside and polls again.
WorkerPollBlockPollsOn ==
    /\ wpc = "poll"
    /\ sem = 0
    /\ \E c \in claim_pending_task(rows, now) :
          /\ c.ret # NoTask
          /\ rows' = c.rows
          /\ held' = c.ret
    /\ wpc' = "poll"
    /\ UNCHANGED <<idem, nextId, now, sem, units, subs, resp, nRetry, specRest>>

\* _worker_loop: a task is claimed and no slot is free: the loop suspends in
\* acquire() holding the claimed task.
WorkerPollBlock ==
    /\ wpc = "poll"
    /\ sem = 0
    /\ \E c \in claim_pending_task(rows, now) :
          /\ c.ret # NoTask
          /\ rows' = c.rows
          /\ held' = c.ret
    /\ wpc' = "acquire"
    /\ UNCHANGED <<idem, nextId, now, sem, units, subs, resp, nRetry, specRest>>

\* _worker_loop: a slot was released; acquire() returns, the held task is
\* dispatched.
WorkerAcquired ==
    /\ wpc = "acquire"
    /\ sem > 0
    /\ sem' = sem - 1
    /\ units' = units (+) OneUnit(Unit(held, "created", NoEnriched))
    /\ held' = NoTask
    /\ wpc' = "poll"
    /\ UNCHANGED <<idem, rows, nextId, now, subs, resp, nRetry, specRest>>

\* _process_task up to its await: _build_idempotency_prompt reads the
\* completed steps and run_agent is entered.
UnitStart(u) ==
    /\ u.pc = "created"
    /\ \E steps \in get_completed_steps(idem, TaskIdStr(u.task.id)) :
          units' = (units (-) OneUnit(u)) (+)
                   OneUnit(Unit(u.task, "agent",
                                [instruction |-> u.task.payload.instruction,
                                 retry_context |-> steps]))
    /\ UNCHANGED <<idem, rows, nextId, now, wpc, held, sem, subs, resp, nRetry, specRest>>

\* The execution callback performs one external step under the store's
\* protocol: check, mark_started, the call, mark_completed.
AgentStep(u, tool) ==
    /\ u.pc = "agent"
    /\ LET tid == TaskIdStr(u.task.id)
           key == make_idempotency_key(tid, tool, AgentArgs)
       IN  /\ ~check_idempotent(idem, key).cached
           /\ \E r \in AgentResponses :
                 idem' = mark_completed(mark_started(idem, key, tid, tool, now).store,
                                        key, r, now)
    /\ UNCHANGED <<rows, nextId, now, wpc, held, sem, units, subs, resp, nRetry, specRest>>

\* A broadcast that lets asyncio.QueueFull escape: the SUCCESS write is
\* committed, the exception lands in the except branch and FAILED is written
\* over it.
AgentReturnsQueueFullEscapes(u, outcome) ==
    /\ u.pc = "agent"
    /\ rows' = IF \E q \in DOMAIN subs : Len(subs[q]) >= SSE_QUEUE_MAXSIZE
               THEN update_task_status(rows, u.task.id, "FAILED", Null, "Traceback", now)
               ELSE update_task_status(rows, u.task.id, "SUCCESS",
                                       "{\"output\": " \o outcome \o "}", Null, now)
    /\ subs' = Broadcast(subs, Event(u.task.id, rows'[u.task.id].status))
    /\ units' = (units (-) OneUnit(u)) (+) OneUnit(Ended(u, outcome))
    /\ UNCHANGED <<idem, nextId, now, wpc, held, sem, resp, nRetry, specRest>>

\* run_agent returns (its AgentTask completed or failed): _process_task
\* writes SUCCESS with the dumped task as result.
AgentReturns(u, outcome) ==
    /\ u.pc = "agent"
    /\ rows' = update_task_status(rows, u.task.id, "SUCCESS",
                                  "{\"output\": " \o outcome \o "}", Null, now)
    /\ subs' = Broadcast(subs, Event(u.task.id, "SUCCESS"))
    /\ units' = (units (-) OneUnit(u)) (+) OneUnit(Ended(u, outcome))
    /\ UNCHANGED <<idem, nextId, now, wpc, held, sem, resp, nRetry, specRest>>

\* _process_task without its try/except: the exception ends the unit and
\* nothing is written.
AgentRaisesUncaught(u) ==
    /\ u.pc = "agent"
    /\ units' = (units (-) OneUnit(u)) (+) OneUnit(Ended(u, "raised"))
    /\ UNCHANGED <<idem, rows, nextId, now, wpc, held, sem, subs, resp, nRetry, specRest>>

\* run_agent (or the dump of its result) raises: _process_task writes FAILED
\* with the traceback.
AgentRaises(u) ==
    /\ u.pc = "agent"
    /\ rows' = update_task_status(rows, u.task.id, "FAILED", Null,
                                  "Traceback", now)
    /\ subs' = Broadcast(subs, Event(u.task.id, "FAILED"))
    /\ units' = (units (-) OneUnit(u)) (+) OneUnit(Ended(u, "raised"))
    /\ UNCHANGED <<idem, nextId, now, wpc, held, sem, resp, nRetry, specRest>>

\* The slot given back at the end of _process_task's body instead of in a
\* done callback: a unit that ends with an exception never gets there.
StatusWriteRaisesLeaks(u) ==
    /\ u.pc = "agent"
    /\ units' = units (-) OneUnit(u)
    /\ UNCHANGED <<idem, rows, nextId, now, wpc, held, sem, subs, resp, nRetry, specRest>>

\* The store fails under the terminal write: update_task_status raises in
\* the except branch (after run_agent raised, or after the SUCCESS write
\* raised), nothing is written, and the unit ends with that exception.
StatusWriteRaises(u) ==
    /\ u.pc = "agent"
    /\ units' = (units (-) OneUnit(u)) (+) OneUnit(Ended(u, "write_raised"))
    /\ UNCHANGED <<idem, rows, nextId, now, wpc, held, sem, subs, resp, nRetry, specRest>>

\* A done callback that forgets _worker_semaphore.release().
UnitReleasedKeepsSlot(u) ==
    /\ u.pc = "done"
    /\ units' = units (-) OneUnit(u)
    /\ UNCHANGED <<idem, rows, nextId, now, wpc, held, sem, subs, resp, nRetry, specRest>>

\* The task object is done: its done callback release_sem runs.
UnitReleased(u) ==
    /\ u.pc = "done"
    /\ units' = units (-) OneUnit(u)
    /\ sem' = sem + 1
    /\ UNCHANGED <<idem, rows, nextId, now, wpc, held, subs, resp, nRetry, specRest>>

\* swarm_ops.retry_task: the outcomes of a request (the table it leaves, the
\* status code, completed_steps_injected).
RetryAllowedWhenNotPending(status) == status # "PENDING"

RetryAllowedWhenNotRunning(status) == status # "RUNNING"

RetryAllowed(status) == status = "FAILED"

RetryOutcome(table, code, injected) == [rows |-> table, code |-> code, injected |-> injected]

\* The UPDATE without "error = NULL".
retry_task_keeps_error(table, store, id, t) ==
    IF id \notin DOMAIN table THEN {RetryOutcome(table, 404, 0)}
    ELSE IF ~RetryAllowed(table[id].status) THEN {RetryOutcome(table, 400, 0)}
    ELSE {RetryOutcome(
              [table EXCEPT
                  ![id].status = "PENDING",
                  ![id].payload =
                      IF steps # <<>>
                      THEN Payload(Append(@.instruction, RetryNote(steps)))
                      ELSE @,
                  ![id].updated_at = t],
              200, Len(steps)) :
            steps \in get_completed_steps(
                         store, "trigger_" \o table[id].task_slug \o "_" \o ToString(id))}

\* The note written once: a payload that already carries a retry note is
\* not patched again.
retry_task_notes_once(table, store, id, t) ==
    IF id \notin DOMAIN table THEN {RetryOutcome(table, 404, 0)}
    ELSE IF ~RetryAllowed(table[id].status) THEN {RetryOutcome(table, 400, 0)}
    ELSE {RetryOutcome(
              [table EXCEPT
                  ![id].status = "PENDING",
                  ![id].error = Null,
                  ![id].payload =
                      IF steps # <<>> /\ Len(@.instruction) = 1
                      THEN Payload(Append(@.instruction, RetryNote(steps)))
                      ELSE @,
                  ![id].updated_at = t],
              200, Len(steps)) :
            steps \in get_completed_steps(
                         store, "trigger_" \o table[id].task_slug \o "_" \o ToString(id))}

\* A retry that re-inserts the task: created_at becomes the time of the retry.
retry_task_recreated(table, store, id, t) ==
    IF id \notin DOMAIN table THEN {RetryOutcome(table, 404, 0)}
    ELSE IF ~RetryAllowed(table[id].status) THEN {RetryOutcome(table, 400, 0)}
    ELSE {RetryOutcome(
              [table EXCEPT
                  ![id].status = "PENDING",
                  ![id].error = Null,
                  ![id].payload =
                      IF steps # <<>>
                      THEN Payload(Append(@.instruction, RetryNote(steps)))
                      ELSE @,
                  ![id].created_at = t,
                  ![id].updated_at = t],
              200, Len(steps)) :
            steps \in get_completed_steps(
                         store, "trigger_" \o table[id].task_slug \o "_" \o ToString(id))}

retry_task(table, store, id, t) ==
    IF id \notin DOMAIN table THEN {RetryOutcome(table, 404, 0)}
    ELSE IF ~RetryAllowed(table[id].status) THEN {RetryOutcome(table, 400, 0)}
    ELSE {RetryOutcome(
              [table EXCEPT
                  ![id].status = "PENDING",
                  ![id].error = Null,
                  ![id].payload =
                      IF steps # <<>>
                      THEN Payload(Append(@.instruction, RetryNote(steps)))
                      ELSE @,
                  ![id].updated_at = t],
              200, Len(steps)) :
            steps \in get_completed_steps(
                         store, "trigger_" \o table[id].task_slug \o "_" \o ToString(id))}

\* An operator posts /tasks/{id}/retry.
Retry(id) ==
    \E o \in retry_task(rows, idem, id, now) :
        /\ o.code = 200 => nRetry < MaxRetries
        /\ rows' = o.rows
        /\ nRetry' = IF o.code = 200 THEN nRetry + 1 ELSE nRetry
        /\ UNCHANGED <<idem, nextId, now, wpc, held, sem, units, subs, resp, specRest>>

Init ==
    /\ KeyIdle /\ IdemIdle /\ SideIdle
    /\ rows = EmptyFn /\ nextId = 0 /\ now = 0 /\ dbLock = NoThread /\ connTxn = FALSE
    /\ callers = EmptyFn /\ wpc = "poll" /\ held = NoTask
    /\ sem = MAX_CONCURRENT_WORKERS /\ units = EmptyBag /\ subs = EmptyFn
    /\ resp = NoResp /\ nRetry = 0

Next ==
    \/ \E slug \in Slugs : Enqueue(slug)
    \/ WorkerPollEmpty
    \/ WorkerWake
    \/ WorkerPollDispatch
    \/ WorkerPollBlock
    \/ WorkerAcquired
    \/ \E u \in UnitsNow : UnitStart(u)
    \/ \E u \in UnitsNow, tool \in AgentTools : AgentStep(u, tool)
    \/ \E u \in UnitsNow, outcome \in {"completed", "failed"} : AgentReturns(u, outcome)
    \/ \E u \in UnitsNow : AgentRaises(u)
    \/ \E u \in UnitsNow : UnitReleased(u)
    \/ \E id \in 1..MaxTasks : Retry(id)

Spec == Init /\ [][Next]_vars

-----------------------------------------------------------------------------------------------------------------------------------------------------
(* SpecRetry: the operator's retry requests observed.  A request is        *)
(* answered in one step (the handler has no await) and the answer stays in *)
(* resp until it is sent.  Two tasks: the first is executed, its callback  *)
(* has two external steps to perform, so that later attempts find more     *)
(* completed steps than earlier ones; the second waits in the queue.  The  *)
(* clock is seen to advance while a task waits in FAILED for its retry.    *)

RetryIds == {1, 2}
RetryTools == {"toolA", "toolB"}

RetryResp(id, code, injected) ==
    [op |-> "retry", task_id |-> id, code |-> code, injected |-> injected]

\* POST /tasks/{id}/retry, handled.
RetryRequest(id) ==
    /\ resp = NoResp
    /\ \E o \in retry_task(rows, idem, id, now) :
          /\ o.code = 200 => nRetry < MaxRequeues
          /\ rows' = o.rows
          /\ nRetry' = IF o.code = 200 THEN nRetry + 1 ELSE nRetry
          /\ resp' = RetryResp(id, o.code, o.injected)
    /\ UNCHANGED <<idem, nextId, now, wpc, held, sem, units, subs, specRest>>

\* The answer (the JSON body or the HTTPException) is sent.
RetryResponded ==
    /\ resp # NoResp
    /\ resp' = NoResp
    /\ UNCHANGED <<idem, rows, nextId, now, wpc, held, sem, units, subs, nRetry, specRest>>

\* datetime.utcnow() moves on.
RetryTick ==
    /\ now < MaxTime
    /\ units = EmptyBag /\ resp = NoResp
    /\ \E id \in DOMAIN rows : rows[id].status = "FAILED"
    /\ now' = now + 1
    /\ UNCHANGED <<idem, rows, nextId, wpc, held, sem, units, subs, resp, nRetry, specRest>>

NextRetry ==
    \/ \E slug \in Slugs : Enqueue(slug) /\ nextId' \in RetryIds
    \/ WorkerPollDispatch /\ \A u \in BagToSet(units') : u.task.id = 1
    \/ \E u \in UnitsNow : UnitStart(u)
    \/ \E u \in UnitsNow, tool \in RetryTools : AgentStep(u, tool)
    \/ \E u \in UnitsNow : AgentReturns(u, "completed")
    \/ \E u \in UnitsNow : AgentRaises(u)
    \/ \E u \in UnitsNow : UnitReleased(u)
    \/ \E id \in RetryIds : RetryRequest(id)
    \/ RetryResponded
    \/ RetryTick

SpecRetry == Init /\ [][NextRetry]_vars

-----------------------------------------------------------------------------
(* SpecWorker: the dispatcher and its slots.  The worker loop, the units   *)
(* it dispatches and the operator's retries, as in Spec, with the store    *)
(* failing under a terminal write as one more way for a unit to end; the   *)
(* callback's external steps are left out (they touch neither the slots    *)
(* nor the task rows).                                                      *)

NextWorker ==
    \/ \E slug \in Slugs : Enqueue(slug)
    \/ WorkerPollEmpty
    \/ WorkerWake
    \/ WorkerPollDispatch
    \/ WorkerPollBlock
    \/ WorkerAcquired
    \/ \E u \in UnitsNow : UnitStart(u)
    \/ \E u \in UnitsNow, outcome \in {"completed", "failed"} : AgentReturns(u, outcome)
    \/ \E u \in UnitsNow : AgentRaises(u)
    \/ \E u \in UnitsNow : StatusWriteRaises(u)
    \/ \E u \in UnitsNow : UnitReleased(u)
    \/ \E id \in 1..MaxTasks : Retry(id)

SpecWorker == Init /\ [][NextWorker]_vars

-----------------------------------------------------------------------------
(* SpecLive: the dispatcher with a store that does not fail and callbacks  *)
(* that terminate.  The event loop runs every coroutine that is ready: the *)
(* worker loop (its sleep elapses, acquire() returns once a slot is free)  *)
(* and every dispatched unit (run_agent ends, the done callback runs) are  *)
(* weakly fair.  Triggers and operators are under no obligation.           *)

WorkerStep ==
    \/ WorkerPollEmpty
    \/ WorkerWake
    \/ WorkerPollDispatch
    \/ WorkerPollBlock
    \/ WorkerAcquired

UnitStep ==
    \/ \E u \in UnitsNow : UnitStart(u)
    \/ \E u \in UnitsNow, outcome \in {"completed", "failed"} : AgentReturns(u, outcome)
    \/ \E u \in UnitsNow : AgentRaises(u)
    \/ \E u \in UnitsNow : UnitReleased(u)

NextLive ==
    \/ \E slug \in Slugs : Enqueue(slug)
    \/ WorkerStep
    \/ UnitStep
    \/ \E id \in 1..MaxTasks : Retry(id)

SpecLive == Init /\ [][NextLive]_vars /\ WF_vars(WorkerStep) /\ WF_vars(UnitStep)

-----------------------------------------------------------------------------
(* SpecStore: the task table under any sequence of its operations, called  *)
(* in any order by anyone: enqueue, claim, status update (any task id, any *)
(* of the four statuses), retry and delete.                                *)

\* A GROUP BY that loses the RUNNING group.
get_queue_stats_no_running(table) ==
    [s \in {"PENDING", "RUNNING", "SUCCESS", "FAILED"} |->
        IF s = "RUNNING" THEN 0
        ELSE Cardinality({i \in DOMAIN table : table[i].status = s})]

\* get_queue_stats: SELECT status, count(*) ... GROUP BY status, copied into
\* a dict preset with the four statuses (other groups are dropped).
get_queue_stats(table) ==
    LET groups == {table[i].status : i \in DOMAIN table}
    IN  [s \in {"PENDING", "RUNNING", "SUCCESS", "FAILED"} |->
            IF s \in groups
            THEN Cardinality({i \in DOMAIN table : table[i].status = s})
            ELSE 0]

\* swarm_ops.delete_task: 404 without a row, else the row is deleted.
delete_task(table, id) ==
    IF id \notin DOMAIN table THEN [rows |-> table, code |-> 404]
    ELSE [rows |-> [i \in DOMAIN table \ {id} |-> table[i]], code |-> 200]

StoreResults == {Null, "r1", "r2"}
StoreErrors == {Null, "Traceback"}

StoreClaim ==
    /\ \E c \in claim_pending_task(rows, now) : rows' = c.rows
    /\ UNCHANGED <<idem, nextId, now, wpc, held, sem, units, subs, resp, nRetry, specRest>>

StoreUpdate(id, status, result, error) ==
    /\ rows' = update_task_status(rows, id, status, result, error, now)
    /\ subs' = Broadcast(subs, Event(id, status))
    /\ UNCHANGED <<idem, nextId, now, wpc, held, sem, units, resp, nRetry, specRest>>

StoreDelete(id) ==
    /\ rows' = delete_task(rows, id).rows
    /\ UNCHANGED <<idem, nextId, now, wpc, held, sem, units, subs, resp, nRetry, specRest>>

NextStore ==
    \/ \E slug \in Slugs : Enqueue(slug)
    \/ StoreClaim
    \/ \E id \in 1..MaxTasks, status \in Statuses, result \in StoreResults,
          error \in StoreErrors : StoreUpdate(id, status, result, error)
    \/ \E id \in 1..MaxTasks : Retry(id)
    \/ \E id \in 1..MaxTasks : StoreDelete(id)

SpecStore == Init /\ [][NextStore]_vars

(* SpecTerminal: terminal status writes, one after the other, on tasks     *)
(* that were enqueued and claimed; each call is kept in resp as the most   *)
(* recent request, with the table it found.                                *)

TerminalWrite(id, status, result, error) ==
    /\ rows' = update_task_status(rows, id, status, result, error, now)
    /\ subs' = Broadcast(subs, Event(id, status))
    /\ resp' = [op |-> "update", task_id |-> id, status |-> status,
                result |-> result, error |-> error, before |-> rows]
    /\ UNCHANGED <<idem, nextId, now, wpc, held, sem, units, nRetry, specRest>>

NextTerminal ==
    \/ \E slug \in Slugs : Enqueue(slug)
    \/ StoreClaim
    \/ \E id \in 1..MaxTasks, result \in StoreResults \ {Null} :
          TerminalWrite(id, "SUCCESS", result, Null)
    \/ \E id \in 1..MaxTasks, error \in StoreErrors \ {Null} :
          TerminalWrite(id, "FAILED", Null, error)

SpecTerminal == Init /\ [][NextTerminal]_vars

-----------------------------------------------------------------------------
(* SpecEvents: the SSE event bus beside the task table.  Observers connect *)
(* to GET /stream (subscribe_events), read their queue and disconnect      *)
(* (unsubscribe_events), while tasks are enqueued, claimed, finished by    *)
(* the dispatcher's terminal writes and retried.                           *)

Subscribers == {"ui1", "ui2"}

\* subscribe_events: a new, empty asyncio.Queue joins _sse_subscribers.
Subscribe(q) ==
    /\ q \notin DOMAIN subs
    /\ subs' = [x \in DOMAIN subs \cup {q} |-> IF x = q THEN <<>> ELSE subs[x]]
    /\ UNCHANGED <<idem, rows, nextId, now, wpc, held, sem, units, resp, nRetry, specRest>>

\* unsubscribe_events: the queue is discarded.
Unsubscribe(q) ==
    /\ q \in DOMAIN subs
    /\ subs' = [x \in DOMAIN subs \ {q} |-> subs[x]]
    /\ UNCHANGED <<idem, rows, nextId, now, wpc, held, sem, units, resp, nRetry, specRest>>

\* swarm_stream: queue.get() returns the oldest event.
Consume(q) ==
    /\ q \in DOMAIN subs /\ subs[q] # <<>>
    /\ subs' = [subs EXCEPT ![q] = Tail(@)]
    /\ UNCHANGED <<idem, rows, nextId, now, wpc, held, sem, units, resp, nRetry, specRest>>

NextEvents ==
    \/ \E q \in Subscribers : Subscribe(q)
    \/ \E q \in Subscribers : Unsubscribe(q)
    \/ \E q \in Subscribers : Consume(q)
    \/ \E slug \in Slugs : Enqueue(slug)
    \/ StoreClaim
    \/ \E id \in DOMAIN rows :
          rows[id].status = "RUNNING" /\ StoreUpdate(id, "SUCCESS", "r1", Null)
    \/ \E id \in DOMAIN rows :
          rows[id].status = "RUNNING" /\ StoreUpdate(id, "FAILED", Null, "Traceback")
    \/ \E id \in 1..MaxTasks : Retry(id)

SpecEvents == Init /\ [][NextEvents]_vars

(* SpecBus: the dispatcher with one observer on the event bus, which       *)
(* connects, reads and disconnects at any time.                            *)

NextBus ==
    \/ Subscribe("ui1")
    \/ Unsubscribe("ui1")
    \/ Consume("ui1")
    \/ \E slug \in Slugs : Enqueue(slug)
    \/ WorkerStep
    \/ \E u \in UnitsNow : UnitStart(u)
    \/ \E u \in UnitsNow : AgentReturns(u, "completed")
    \/ \E u \in UnitsNow : AgentRaises(u)
    \/ \E u \in UnitsNow : UnitReleased(u)
    \/ \E id \in 1..MaxTasks : Retry(id)

SpecBus == Init /\ [][NextBus]_vars

-----------------------------------------------------------------------------
(* SpecFault: the dispatcher over a store that fails.  Another connection  *)
(* (a thread, a second process) may take SQLite's write lock and keep it   *)
(* past the busy timeout: a statement that needs the lock then raises      *)
(* OperationalError.  The worker loop, the units and the async handlers    *)
(* run on the event loop thread and share its thread-local connection;     *)
(* sqlite3 opens a transaction before an UPDATE, and an UPDATE that raises  *)
(* leaves it open until the next commit or rollback on that connection,     *)
(* while BEGIN IMMEDIATE raises inside an open transaction.  Scheduling is  *)
(* as in SpecLive; the other connection is under no obligation.             *)

OtherWriter == 1

StoreReady == dbLock = NoThread /\ ~connTxn

faultRest == <<keyVars, sideVars, idemVars, now, callers, subs, resp, nRetry>>

StoreLock ==
    /\ dbLock = NoThread
    /\ dbLock' = OtherWriter
    /\ UNCHANGED <<rows, nextId, connTxn, wpc, held, sem, units, faultRest>>

StoreUnlock ==
    /\ dbLock = OtherWriter
    /\ dbLock' = NoThread
    /\ UNCHANGED <<rows, nextId, connTxn, wpc, held, sem, units, faultRest>>

\* _worker_loop: claim_pending_task() raises at BEGIN IMMEDIATE (the lock is
\* taken, or the connection is inside a transaction); the loop logs and
\* awaits asyncio.sleep(5.0).
WorkerPollRaises ==
    /\ wpc = "poll"
    /\ ~StoreReady
    /\ wpc' = "backoff"
    /\ UNCHANGED <<rows, nextId, dbLock, connTxn, held, sem, units, faultRest>>

WorkerBackoffOver ==
    /\ wpc = "backoff"
    /\ wpc' = "poll"
    /\ UNCHANGED <<rows, nextId, dbLock, connTxn, held, sem, units, faultRest>>

\* _process_task under a locked store: the SUCCESS write raises (if it was
\* tried), the FAILED write in the except branch raises as well, the unit
\* ends with that exception and the connection stays inside the transaction
\* that the UPDATE opened.
StatusWriteLocked(u) ==
    /\ u.pc = "agent"
    /\ dbLock # NoThread
    /\ connTxn' = TRUE
    /\ units' = (units (-) OneUnit(u)) (+) OneUnit(Ended(u, "write_raised"))
    /\ UNCHANGED <<rows, nextId, dbLock, wpc, held, sem, faultRest>>

\* _process_task on a connection left inside a transaction, the lock free:
\* the UPDATE runs in that transaction and conn.commit() ends it.
StatusWriteInTxn(u, how) ==
    /\ u.pc = "agent"
    /\ dbLock = NoThread /\ connTxn
    /\ rows' = IF how = "raised"
               THEN update_task_status(rows, u.task.id, "FAILED", Null, "Traceback", now)
               ELSE update_task_status(rows, u.task.id, "SUCCESS",
                                       "{\"output\": " \o how \o "}", Null, now)
    /\ connTxn' = FALSE
    /\ units' = (units (-) OneUnit(u)) (+) OneUnit(Ended(u, how))
    /\ UNCHANGED <<nextId, dbLock, wpc, held, sem, faultRest>>

WorkerFaultStep ==
    \/ WorkerPollEmpty /\ StoreReady
    \/ WorkerPollDispatch /\ StoreReady
    \/ WorkerPollBlock /\ StoreReady
    \/ WorkerPollRaises
    \/ WorkerBackoffOver
    \/ WorkerWake
    \/ WorkerAcquired

UnitFaultStep ==
    \/ \E u \in UnitsNow : UnitStart(u)
    \/ \E u \in UnitsNow : AgentReturns(u, "completed") /\ StoreReady
    \/ \E u \in UnitsNow : AgentRaises(u) /\ StoreReady
    \/ \E u \in UnitsNow : StatusWriteLocked(u)
    \/ \E u \in UnitsNow, how \in {"completed", "raised"} : StatusWriteInTxn(u, how)
    \/ \E u \in UnitsNow : UnitReleased(u)

NextFault ==
    \/ \E slug \in Slugs : Enqueue(slug) /\ dbLock = NoThread
    \/ StoreLock
    \/ StoreUnlock
    \/ WorkerFaultStep
    \/ UnitFaultStep
    \/ \E id \in 1..MaxTasks : Retry(id) /\ StoreReady

SpecFault ==
    Init /\ [][NextFault]_vars /\ WF_vars(WorkerFaultStep) /\ WF_vars(UnitFaultStep)

-----------------------------------------------------------------------------
(* The audit chain.  trustchain_api builds one TrustChain instance, _tc,    *)
(* over the log persisted in _CHAIN_DIR.  TrustChain itself (sign, the      *)
(* chain store) is the trustchain package, which src/ only calls: what      *)
(* sign does to the log is taken from the specification's section 4.5.      *)

\* An operation of the log.  The Ed25519 signature covers tool, data and a
\* fresh nonce (enable_nonce=True): it is kept as the text "sig<nonce>",
\* distinct for each signing.
Operation(tool, data, signature, parent_signature) ==
    [tool |-> tool, data |-> data, signature |-> signature,
     parent_signature |-> parent_signature]

Signature(nonce) == "sig" \o ToString(nonce)

\* TrustChain.sign with enable_chain: the parent is the signature of the
\* chain head, null on an empty chain; the operation is appended and becomes
\* the head.
tc_sign(log, tool, data) ==
    Append(log, Operation(tool, data, Signature(Len(log) + 1),
                          IF log = <<>> THEN Null ELSE log[Len(log)].signature))

\* A sign_operation that chains each tool's operations to that tool's own
\* previous operation.
sign_operation_per_tool(log, tool, data) ==
    LET mine == {i \in 1..Len(log) : log[i].tool = tool}
        last == CHOOSE i \in mine : \A j \in mine : j <= i
    IN  Append(log, Operation(tool, data, Signature(Len(log) + 1),
                              IF mine = {} THEN Null ELSE log[last].signature))

\* sign_operation: one synchronous call of _tc.sign; the log after it.
sign_operation(log, tool, data) == tc_sign(log, tool, data)

\* The coroutines that sign on the one event loop: run_agent for two tasks
\* running at the same time, and the response-signing middleware.
Agents == {"agent1", "agent2"}
Middleware == "middleware"
SignerIdle == [s \in Agents \cup {Middleware} |-> "idle"]

chainRest == <<keyVars, idemVars, queueNoClock, now, shellVars, boots, trigVars>>

\* run_agent awaits the tool's execution; the other coroutines run meanwhile.
AgentCallsTool(a) ==
    /\ signers[a] = "idle"
    /\ signers' = [signers EXCEPT ![a] = "tool"]
    /\ UNCHANGED <<chain, tampered, resp, chainRest>>

\* The tool returned: run_agent signs the call, without awaiting.
AgentSigns(a) ==
    /\ signers[a] = "tool"
    /\ Len(chain) < MaxChain
    /\ chain' = sign_operation(chain, a, "result_preview")
    /\ signers' = [signers EXCEPT ![a] = "idle"]
    /\ UNCHANGED <<tampered, resp, chainRest>>

\* TrustChainMiddleware (sign_all=True on the same _tc) awaits the handler
\* of a request ...
MiddlewareAwaitsHandler ==
    /\ signers[Middleware] = "idle"
    /\ signers' = [signers EXCEPT ![Middleware] = "handler"]
    /\ UNCHANGED <<chain, tampered, resp, chainRest>>

\* ... and signs its JSON response.
MiddlewareSigns ==
    /\ signers[Middleware] = "handler"
    /\ Len(chain) < MaxChain
    /\ chain' = tc_sign(chain, Middleware, "response")
    /\ signers' = [signers EXCEPT ![Middleware] = "idle"]
    /\ UNCHANGED <<tampered, resp, chainRest>>

InitChain ==
    /\ KeyIdle /\ IdemIdle /\ QueueIdle /\ ShellIdle /\ ProcIdle /\ TrigIdle
    /\ chain = <<>> /\ signers = SignerIdle /\ tampered = 0

NextChain ==
    \/ \E a \in Agents : AgentCallsTool(a)
    \/ \E a \in Agents : AgentSigns(a)
    \/ MiddlewareAwaitsHandler
    \/ MiddlewareSigns

SpecChain == InitChain /\ [][NextChain]_vars

(* SpecTamper: the chain status tool over a log built by sign operations   *)
(* in which somebody then rewrites the stored parent_signature of one      *)
(* operation after the first.                                              *)

\* The module-level names of trustchain_api that _get_tc can import.
TrustchainApiNames == {"router", "_CHAIN_DIR", "_tc", "_violations", "sign_operation"}

\* Python's truth value of dict.get(...) on a text field: None and "" are
\* false.
Truthy(x) == x # Null /\ x # ""

\* TrustChainChainStatus.run, the loop over range(1, total): broken_links.
ChainIntegrity(operations) ==
    Cardinality({i \in 2..Len(operations) :
        /\ Truthy(operations[i - 1].signature)
        /\ Truthy(operations[i].parent_signature)
        /\ operations[i - 1].signature # operations[i].parent_signature})

ChainStatus(outcome, total, broken_links, over) ==
    [op |-> "chain_status", outcome |-> outcome, total |-> total,
     broken_links |-> broken_links, over |-> over]

\* The tool's run: _get_tc() imports _tc and _operations from trustchain_api,
\* then the report is "empty" or the integrity count over the operations.
TrustChainChainStatusRun ==
    /\ resp' = IF ~({"_tc", "_operations"} \subseteq TrustchainApiNames)
               THEN ChainStatus("ImportError", 0, 0, chain)
               ELSE IF Len(chain) = 0
               THEN ChainStatus("empty", 0, 0, chain)
               ELSE ChainStatus("report", Len(chain), ChainIntegrity(chain), chain)
    /\ UNCHANGED <<chain, signers, tampered, keyVars, idemVars, rows, nextId, now,
                   dbLock, connTxn, callers, wpc, held, sem, units, subs, nRetry,
                   shellVars, boots, trigVars>>

\* What a rewritten parent_signature may be: null, the empty text, a text
\* that is no signature, or a signature of the log.
ParentValues(log) == {Null, "", "forged"} \cup {log[i].signature : i \in 1..Len(log)}

\* The stored log is edited outside the service: operation i (i - 1 when
\* counted from zero) gets another parent_signature.
Tamper(i, v) ==
    /\ tampered = 0
    /\ i \in 2..Len(chain)
    /\ v # chain[i].parent_signature
    /\ chain' = [chain EXCEPT ![i].parent_signature = v]
    /\ tampered' = i
    /\ UNCHANGED <<signers, resp, chainRest>>

NextTamper ==
    \/ \E a \in Agents : AgentCallsTool(a)
    \/ \E a \in Agents : AgentSigns(a) /\ tampered = 0
    \/ \E i \in 1..MaxChain : \E v \in ParentValues(chain) : Tamper(i, v)
    \/ TrustChainChainStatusRun

SpecTamper == InitChain /\ [][NextTamper]_vars

-----------------------------------------------------------------------------
(* secret_replacer and PersistentShellTool.  A command is kept as its      *)
(* parts: the argument that may be a {{VAULT:name}} token, and the host of *)
(* the URL it contacts (a sequence of labels, lower case, port stripped),  *)
(* or no URL.                                                              *)

NoUrl == <<>>
VaultToken(name) == [vault |-> name]
IsVaultToken(part) == DOMAIN part = {"vault"}
Plain(text) == [plain |-> text]
ShellCommand(kind, arg, host) == [kind |-> kind, arg |-> arg, host |-> host]

\* vault_db.reveal_secret: the plaintext, or None for an unknown name.
VaultSecrets == [stripe |-> "sk_live_1"]
reveal_secret(name) ==
    IF name \in DOMAIN VaultSecrets THEN VaultSecrets[name] ELSE Null

\* apply: every token becomes its plaintext, or VAULT_SECRET_NOT_FOUND(name).
apply(cmd) ==
    IF ~IsVaultToken(cmd.arg) THEN cmd
    ELSE [cmd EXCEPT !.arg =
             IF reveal_secret(cmd.arg.vault) = Null
             THEN Plain("VAULT_SECRET_NOT_FOUND(" \o cmd.arg.vault \o ")")
             ELSE Plain(reveal_secret(cmd.arg.vault))]

\* h == d or h.endswith("." + d), on label sequences.
HostEndsWith(h, d) ==
    /\ Len(d) <= Len(h)
    /\ \A i \in 1..Len(d) : h[Len(h) - Len(d) + i] = d[i]

hostname_is_allowed(hostname, allowed_domains) ==
    \E d \in allowed_domains : HostEndsWith(hostname, d)

\* apply_guarded: substitute, then, when the text had a token and an
\* allowlist is set, raise VaultExfiltrationError on a URL whose host is
\* not allowed.
apply_guarded(cmd, allowed_domains) ==
    IF ~IsVaultToken(cmd.arg) THEN [raised |-> FALSE, text |-> apply(cmd)]
    ELSE IF allowed_domains = {} THEN [raised |-> FALSE, text |-> apply(cmd)]
    ELSE IF cmd.host # NoUrl /\ ~hostname_is_allowed(cmd.host, allowed_domains)
    THEN [raised |-> TRUE, text |-> Null]
    ELSE [raised |-> FALSE, text |-> apply(cmd)]

ShellHosts ==
    {NoUrl, <<"api", "stripe", "com">>, <<"eu", "api", "stripe", "com">>,
     <<"evil", "com">>, <<"stripe", "com", "evil", "io">>}
ShellArgs == {Plain("x"), VaultToken("stripe"), VaultToken("nope")}
ShellCommands ==
    {ShellCommand("run", arg, host) : arg \in ShellArgs, host \in ShellHosts}
        \cup {ShellCommand("cd", Plain("dir"), NoUrl)}
AllowLists == {{}, {<<"api", "stripe", "com">>}}

ShellEntry(command, outcome, sent) ==
    [command |-> command, outcome |-> outcome, sent |-> sent]

\* PersistentShellTool.run: no container, nothing runs; a lone cd runs the
\* path check with the command as given; any other command runs in the
\* container after secret_replacer.apply.
PersistentShellRun(cmd, docker) ==
    /\ Len(shellLog) < MaxCommands
    /\ shellLog' = Append(shellLog,
          IF docker # "ok" THEN ShellEntry(cmd, "no_container", Null)
          ELSE IF cmd.kind = "cd" THEN ShellEntry(cmd, "cd", cmd)
          ELSE ShellEntry(cmd, "executed", apply(cmd)))
    /\ UNCHANGED <<allowed, keyVars, idemVars, queueVars, chainVars, boots, trigVars>>

InitShell ==
    /\ KeyIdle /\ IdemIdle /\ QueueIdle /\ ChainIdle /\ ProcIdle /\ TrigIdle
    /\ allowed \in AllowLists
    /\ shellLog = <<>>

NextShell ==
    \E cmd \in ShellCommands, docker \in {"ok", "NotFound"} :
        PersistentShellRun(cmd, docker)

SpecShell == InitShell /\ [][NextShell]_vars

-----------------------------------------------------------------------------
(* Properties of the idempotency store.                                    *)

Completed(store, k) == k \in DOMAIN store /\ store[k].status = "COMPLETED"

\* C5: for a caller following the protocol in sequential attempts, once a key
\* is recorded COMPLETED no further external call is issued for it, and every
\* check of it returns the cached response, whatever crashes came before.
ReplayNeverReissues ==
    [][ /\ \A k \in ReplayKeys : Completed(idem, k) => extCalls'[k] = extCalls[k]
        /\ (lastOp'.op = "check" /\ Completed(idem', lastOp'.key))
              => /\ lastOp'.ret.cached
                 /\ JsonDumps(lastOp'.ret.response, FALSE)
                       = idem'[lastOp'.key].response_body ]_vars

\* A first attempt crashed after its external call, a second one called again
\* and recorded COMPLETED, a third one got the cached response.
ReplayWitness ==
    /\ lastOp.op = "check" /\ lastOp.ret.cached
    /\ Completed(idem, lastOp.key)
    /\ extCalls[lastOp.key] = 2
    /\ att.pc = "idle" /\ att.started = 3

\* C6: with the same task id and tool name, two argument dicts give the same
\* key exactly when they hold the same items, whatever their insertion order.
KeyDeterminism ==
    (/\ keyOut # <<>>
     /\ keyIn[1].task_id = keyIn[2].task_id
     /\ keyIn[1].tool_name = keyIn[2].tool_name)
       => (keyOut[1] = keyOut[2] <=> DictEq(keyIn[1].call_args, keyIn[2].call_args))

\* make_key(T, tool, {"b":2,"a":1}) and make_key(T, tool, {"a":1,"b":2}) computed.
KeyOrderWitness ==
    /\ keyOut # <<>>
    /\ keyIn[1].task_id = "a" /\ keyIn[2].task_id = "a"
    /\ keyIn[1].tool_name = "a" /\ keyIn[2].tool_name = "a"
    /\ keyIn[1].call_args = <<Item("b", FALSE, "2", TRUE), Item("a", FALSE, "1", TRUE)>>
    /\ keyIn[2].call_args = <<Item("a", FALSE, "1", TRUE), Item("b", FALSE, "2", TRUE)>>
    /\ keyOut[1] = keyOut[2]

\* C7: two different (task_id, tool_name, args) triples never give the same
\* key, also when a task id or tool name holds the separator's characters.
KeyUniqueness ==
    (/\ keyOut # <<>>
     /\ \/ keyIn[1].task_id # keyIn[2].task_id
        \/ keyIn[1].tool_name # keyIn[2].tool_name
        \/ ~DictEq(keyIn[1].call_args, keyIn[2].call_args))
       => keyOut[1] # keyOut[2]

\* C8: check_idempotent returns the cached response exactly when the key's
\* row is COMPLETED, None when the key is absent or STARTED, and leaves the
\* table as it was.
CheckReturnsCompletedOnly ==
    [][ lastOp'.op = "check" =>
          /\ idem' = idem
          /\ lastOp'.ret.cached <=> Completed(idem, lastOp'.key)
          /\ lastOp'.ret.cached =>
                JsonDumps(lastOp'.ret.response, FALSE) = idem[lastOp'.key].response_body
          /\ ~lastOp'.ret.cached => lastOp'.ret = NoneRet ]_vars

\* A check of a key whose row is STARTED returned None while another key's
\* COMPLETED row is in the table.
CheckStartedWitness ==
    /\ lastOp.op = "check" /\ lastOp.ret = NoneRet
    /\ lastOp.key \in DOMAIN idem /\ idem[lastOp.key].status = "STARTED"
    /\ \E k \in DOMAIN idem : idem[k].status = "COMPLETED"

\* C9: mark_started on a key that has a row raises nothing, adds no row and
\* leaves the row (task_id, tool_name, status, response_body, created_at,
\* completed_at) as the first writer left it.
MarkStartedFirstWriterWins ==
    [][ \A k \in DOMAIN idem :
          (lastOp'.op = "mark_started" /\ lastOp'.key = k) =>
             /\ ~lastOp'.raised
             /\ DOMAIN idem' = DOMAIN idem
             /\ idem'[k] = idem[k] ]_vars

\* mark_started was called with another task and tool, at a later time, on a
\* key that already had a row.
MarkStartedAgainWitness ==
    /\ lastOp.op = "mark_started" /\ lastOp.key \in DOMAIN idem
    /\ idem[lastOp.key].task_id # lastOp.task_id
    /\ idem[lastOp.key].tool_name # lastOp.tool_name
    /\ idem[lastOp.key].created_at < now

\* C10: a key's row never disappears and, once COMPLETED, stays COMPLETED
\* under every mark_started and mark_completed call.
IdemStatusMonotonic ==
    [][ \A k \in DOMAIN idem :
          /\ k \in DOMAIN idem'
          /\ idem[k].status = "COMPLETED" => idem'[k].status = "COMPLETED" ]_vars

\* mark_started was called on a key after it was recorded COMPLETED.
MarkStartedAfterCompletedWitness ==
    /\ lastOp.op = "mark_started"
    /\ Completed(idem, lastOp.key)

-----------------------------------------------------------------------------
(* Properties of claim_pending_task under racing callers.                  *)

Returned(c) == callers[c].pc = "done"
Receivers == {c \in Threads : Returned(c) /\ callers[c].ret # NoTask}

\* C1: no task is returned to two callers, a returned task is RUNNING, and
\* when every caller started after the last enqueue and all have returned,
\* the tasks went to as many callers as there were tasks (one PENDING task
\* and K callers: exactly one receives it, K-1 receive None).
ExclusiveClaim ==
    /\ \A c1, c2 \in Receivers : c1 # c2 => callers[c1].ret.id # callers[c2].ret.id
    /\ \A c \in Receivers : rows[callers[c].ret.id].status = "RUNNING"
    /\ (\A c \in Threads : Returned(c) /\ callers[c].born = nextId)
          => /\ Cardinality(Receivers) = IF nextId < NumCallers THEN nextId ELSE NumCallers
             /\ \A c \in Threads \ Receivers : callers[c].ret = NoTask

\* One PENDING task, every caller started after it was enqueued, all have
\* returned and one of them holds the task.
ExclusiveClaimWitness ==
    /\ nextId = 1
    /\ \A c \in Threads : Returned(c) /\ callers[c].born = 1
    /\ \E c \in Threads : callers[c].ret.id = 1

\* C4: every call that returns a task returns a PENDING task with the oldest
\* created_at of the table, so no PENDING task is older than a claimed one.
FifoClaim ==
    /\ [][ \A c \in Threads :
             (callers[c].pc # "done" /\ callers'[c].pc = "done"
                 /\ callers'[c].ret # NoTask)
               => /\ callers'[c].ret.id \in PendingIds(rows)
                  /\ \A j \in PendingIds(rows) :
                        rows[callers'[c].ret.id].created_at <= rows[j].created_at ]_vars
    /\ [](\A i, j \in DOMAIN rows :
             (rows[i].status = "RUNNING" /\ rows[j].status = "PENDING")
               => rows[i].created_at <= rows[j].created_at)

\* A call that began with two tasks in the table returned the older one and
\* left the younger one PENDING.
FifoClaimWitness ==
    \E c \in Threads :
        /\ Returned(c) /\ callers[c].born = 2 /\ callers[c].ret.id = 1
        /\ rows[1].created_at < rows[2].created_at
        /\ rows[2].status = "PENDING"


-----------------------------------------------------------------------------
(* Properties of the running service.                                      *)

\* A dispatched unit whose _process_task has not yet written a terminal status.
InProgress(u) == u.pc \in {"created", "agent"}

\* C2: for every task id at most one dispatched _process_task unit is in
\* progress at a time, under every interleaving of enqueue, the worker loop,
\* callback completion and operator retry.
OneCallbackPerTask ==
    \A u \in UnitsNow :
        InProgress(u) =>
            /\ CopiesIn(u, units) = 1
            /\ \A v \in UnitsNow :
                  (InProgress(v) /\ v.task.id = u.task.id) => v = u

\* A retried task is being executed again while the unit of its failed
\* attempt still exists (finished, its slot not yet released).
OneCallbackPerTaskWitness ==
    \E u, v \in UnitsNow :
        /\ u.pc = "agent" /\ v.pc = "done" /\ v.task.id = u.task.id
        /\ rows[u.task.id].status = "RUNNING"
        /\ nRetry = 1

\* The worker loop claimed task id in this step.
ClaimedInStep(id) ==
    \/ held.id # id /\ held'.id = id
    \/ \E u \in BagToSet(units') :
          /\ u.task.id = id /\ u.pc = "created"
          /\ CopiesIn(u, units') > CopiesIn(u, units)

\* A unit of task id left run_agent in this step.
FinishedInStep(id) ==
    \E u \in UnitsNow :
        /\ u.task.id = id /\ u.pc = "agent"
        /\ CopiesIn(u, units') < CopiesIn(u, units)

\* C3: a row's status changes only PENDING->RUNNING (by a claim),
\* RUNNING->SUCCESS or RUNNING->FAILED (by the task's callback finishing) and
\* FAILED->PENDING (by an accepted retry); SUCCESS is never left and no row
\* disappears.
StatusTransitions ==
    [][ \A id \in DOMAIN rows :
          /\ id \in DOMAIN rows'
          /\ rows'[id].status # rows[id].status =>
                \/ /\ rows[id].status = "PENDING" /\ rows'[id].status = "RUNNING"
                   /\ ClaimedInStep(id)
                \/ /\ rows[id].status = "RUNNING"
                   /\ rows'[id].status \in {"SUCCESS", "FAILED"}
                   /\ FinishedInStep(id)
                \/ /\ rows[id].status = "FAILED" /\ rows'[id].status = "PENDING"
                   /\ nRetry' = nRetry + 1 ]_vars

\* A task failed with a completed step, was retried (the retry note is in its
\* instruction), was claimed again and ended in SUCCESS.
StatusTransitionsWitness ==
    \E id \in DOMAIN rows :
        /\ rows[id].status = "SUCCESS"
        /\ Len(rows[id].payload.instruction) > 1
        /\ nRetry = 1


-----------------------------------------------------------------------------
(* Further properties of the idempotency store.                            *)

\* What a cached return value must be for the response r.
CachedExactly(ret, r) == ret.cached /\ ~ret.response_none /\ ret.response = r

\* C11 as stated: after mark_completed(key, r2) on a key that has a row (also
\* one already COMPLETED with r1), the row is COMPLETED and
\* check_idempotent(key) returns r2 itself.
LastWriterWinsExact ==
    (lastOp.op = "mark_completed" /\ lastOp.key \in DOMAIN idem)
       => /\ idem[lastOp.key].status = "COMPLETED"
          /\ CachedExactly(check_idempotent(idem, lastOp.key), lastOp.response)

\* C11 amended: after mark_completed(key, r2) on a key that has a row (also
\* one already COMPLETED with r1), the row is COMPLETED and
\* check_idempotent(key) returns json.loads(json.dumps(r2)): r2 with every
\* key as a str.
LastWriterWins ==
    (lastOp.op = "mark_completed" /\ lastOp.key \in DOMAIN idem)
       => /\ idem[lastOp.key].status = "COMPLETED"
          /\ idem[lastOp.key].response_body = JsonDumps(lastOp.response, FALSE)
          /\ CachedExactly(check_idempotent(idem, lastOp.key),
                           JsonLoads(JsonDumps(lastOp.response, FALSE)))

\* mark_completed(key, r2) has just overwritten the body an earlier
\* mark_completed(key, r1) stored, r1 and r2 different.
LastWriterWinsWitness ==
    /\ lastOp.op = "mark_completed" /\ lastOp.key \in DOMAIN idem
    /\ lastOp.prev_body # Null
    /\ lastOp.prev_body # JsonDumps(lastOp.response, FALSE)
    /\ check_idempotent(idem, lastOp.key).response = lastOp.response

\* The COMPLETED rows of a task.
CompletedOf(store, task_id) ==
    {k \in DOMAIN store : store[k].task_id = task_id /\ store[k].status = "COMPLETED"}

\* C12: get_completed_steps(task_id) returns one entry for every COMPLETED
\* row of the task (its tool and completion time), none for STARTED rows or
\* rows of other tasks, in non-decreasing order of completion time.
CompletedStepsListed ==
    lastOp.op = "get_completed_steps" =>
        LET L == lastOp.steps
            done == CompletedOf(idem, lastOp.task_id)
        IN  /\ Len(L) = Cardinality(done)
            /\ \E f \in [1..Len(L) -> done] :
                  /\ \A i, j \in 1..Len(L) : i # j => f[i] # f[j]
                  /\ \A i \in 1..Len(L) :
                        /\ L[i].tool = idem[f[i]].tool_name
                        /\ L[i].completed_at = idem[f[i]].completed_at
            /\ \A i, j \in 1..Len(L) :
                  i < j => L[i].completed_at <= L[j].completed_at

\* The call for "t1" returned two steps, the row completed first in front
\* although its key was inserted after the other's, while the table also
\* holds a STARTED row of "t1" and a COMPLETED row of "t2".
CompletedStepsWitness ==
    /\ lastOp.op = "get_completed_steps" /\ lastOp.task_id = "t1"
    /\ Len(lastOp.steps) = 2
    /\ lastOp.steps[1].completed_at < lastOp.steps[2].completed_at
    /\ lastOp.steps[1].tool = StepTool("k3") /\ lastOp.steps[2].tool = StepTool("k1")
    /\ "k2" \in DOMAIN idem /\ idem["k2"].status = "STARTED"
    /\ CompletedOf(idem, "t2") # {}

-----------------------------------------------------------------------------
(* Properties of the retry handler.                                        *)

\* C13: a retry of a task that is PENDING, RUNNING or SUCCESS is answered
\* with a client error and leaves the whole table (that row's status,
\* payload, result, error, updated_at, and every other row) as it was.
RetryRejected ==
    [][ \A id \in DOMAIN rows :
          (resp = NoResp /\ resp'.op = "retry" /\ resp'.task_id = id
             /\ rows[id].status \in {"PENDING", "RUNNING", "SUCCESS"})
            => /\ resp'.code = 400
               /\ rows' = rows
               /\ nRetry' = nRetry ]_vars

\* A retry of the SUCCESS task was answered 400 while the clock is past the
\* updated_at of the waiting PENDING task, whose retry would be refused too.
RetryRejectedWitness ==
    /\ resp.op = "retry" /\ resp.code = 400
    /\ rows[resp.task_id].status = "SUCCESS"
    /\ rows[resp.task_id].result # Null
    /\ \E j \in DOMAIN rows : rows[j].status = "PENDING" /\ rows[j].updated_at < now

\* C14: an accepted retry of a FAILED task moves that task to PENDING, sets
\* its error to null and stores its payload, as it was or with a retry note
\* appended to the instruction; its slug and created_at, the set of ids and
\* every other row stay as they were, and the task is among those the next
\* claim selects from.
RetryRequeues ==
    [][ \A id \in DOMAIN rows :
          (resp = NoResp /\ resp'.op = "retry" /\ resp'.task_id = id
             /\ rows[id].status = "FAILED")
            => /\ resp'.code = 200
               /\ DOMAIN rows' = DOMAIN rows
               /\ rows'[id].status = "PENDING"
               /\ rows'[id].error = Null
               /\ \/ rows'[id].payload = rows[id].payload
                  \/ /\ Len(rows'[id].payload.instruction)
                          = Len(rows[id].payload.instruction) + 1
                     /\ SubSeq(rows'[id].payload.instruction, 1,
                               Len(rows[id].payload.instruction))
                          = rows[id].payload.instruction
                     /\ rows'[id].payload.instruction[
                            Len(rows'[id].payload.instruction)].kind = "retry_note"
               /\ rows'[id].task_slug = rows[id].task_slug
               /\ rows'[id].created_at = rows[id].created_at
               /\ \A j \in DOMAIN rows \ {id} : rows'[j] = rows[j]
               /\ id \in PendingIds(rows') ]_vars

\* The first task failed at time 0, was retried at time 1 with a note
\* appended, and the dispatcher has claimed it again; the second task is
\* still waiting.
RetryRequeuesWitness ==
    /\ nRetry = 1
    /\ 1 \in DOMAIN rows /\ rows[1].status = "RUNNING"
    /\ Len(rows[1].payload.instruction) = 2
    /\ rows[1].created_at < rows[1].updated_at
    /\ \E u \in UnitsNow : u.task.id = 1 /\ u.pc = "agent"
    /\ 2 \in DOMAIN rows /\ rows[2].status = "PENDING"

\* The note a retry appended in this step, <<>> when it appended none.
NoteAppended(id) ==
    IF Len(rows'[id].payload.instruction) = Len(rows[id].payload.instruction) + 1
    THEN rows'[id].payload.instruction[Len(rows'[id].payload.instruction)].steps
    ELSE <<>>

\* C15: every accepted retry reads the store as it is at the call: with k
\* COMPLETED rows of the task it answers completed_steps_injected = k and
\* appends a note naming exactly those k steps (tool and summary of each
\* row, once); with k = 0 it answers 0 and leaves the payload as it was.
RetryInjectsCompletedSteps ==
    [][ \A id \in DOMAIN rows :
          (resp = NoResp /\ resp'.op = "retry" /\ resp'.task_id = id
             /\ resp'.code = 200)
            => LET done == CompletedOf(idem, TaskIdStr(id))
                   note == NoteAppended(id)
               IN  /\ resp'.injected = Cardinality(done)
                   /\ done = {} => rows'[id].payload = rows[id].payload
                   /\ Len(note) = Cardinality(done)
                   /\ {note[i].tool : i \in 1..Len(note)}
                         = {idem[k].tool_name : k \in done}
                   /\ \A i \in 1..Len(note) : \E k \in done :
                         /\ note[i].tool = idem[k].tool_name
                         /\ note[i].completed_at = idem[k].completed_at
                         /\ note[i].result_summary =
                               IF idem[k].response_body = "{\"summary\": \"s1\"}"
                               THEN "s1" ELSE "completed" ]_vars

\* The second retry of the first task was answered with two steps injected
\* after the first retry had injected one: the second step was completed, at
\* a later time, by the attempt in between.
RetryInjectsWitness ==
    /\ resp.op = "retry" /\ resp.code = 200 /\ resp.task_id = 1
    /\ resp.injected = 2 /\ nRetry = 2
    /\ Len(rows[1].payload.instruction) = 3
    /\ Len(rows[1].payload.instruction[2].steps) = 1
    /\ Len(rows[1].payload.instruction[3].steps) = 2
    /\ rows[1].payload.instruction[3].steps[1].completed_at
          < rows[1].payload.instruction[3].steps[2].completed_at

-----------------------------------------------------------------------------
(* Properties of the dispatcher's slots and of the terminal writes.        *)

\* The slots taken from the semaphore and not given back.
SlotsHeld == MAX_CONCURRENT_WORKERS - sem

NoClaimWhileSaturated ==
    [][sem = 0 =>
          \A id \in DOMAIN rows :
              ~(rows[id].status = "PENDING" /\ rows'[id].status = "RUNNING")]_vars

\* A unit ended in this step the way "how" says.
EndedInStep(v, how) ==
    v.ended = how /\ CopiesIn(v, units') > CopiesIn(v, units)

\* C18: when the execution callback raises for a claimed task, the task's
\* row becomes FAILED with the traceback in error, and the worker loop is
\* left as it was (where it stands, the task it holds, the free slots), so
\* it goes on claiming.
CallbackExceptionRecorded ==
    [][\A v \in BagToSet(units') :
          EndedInStep(v, "raised") =>
              /\ rows'[v.task.id].status = "FAILED"
              /\ rows'[v.task.id].error = "Traceback"
              /\ rows'[v.task.id].result = Null
              /\ \A id \in DOMAIN rows \ {v.task.id} : rows'[id] = rows[id]
              /\ wpc' = wpc /\ held' = held /\ sem' = sem]_vars

\* A task whose callback raised was retried and has been claimed and
\* dispatched again by the same worker loop, the unit that failed still
\* unreleased, while the other task's callback has raised as well.
CallbackExceptionWitness ==
    \E u, v \in UnitsNow :
        /\ v.ended = "raised" /\ u.task.id = v.task.id /\ u.pc = "created"
        /\ rows[u.task.id].status = "RUNNING"
        /\ \E id \in DOMAIN rows :
              /\ id # u.task.id
              /\ rows[id].status = "FAILED" /\ rows[id].error = "Traceback"

\* C19: when run_agent returns a task whose status is failed, the queue
\* task is recorded as FAILED with the failure detail as its error.
FailureOutcomeRecorded ==
    [][\A v \in BagToSet(units') :
          EndedInStep(v, "failed") =>
              /\ rows'[v.task.id].status = "FAILED"
              /\ rows'[v.task.id].error # Null]_vars

Endings == {"completed", "failed", "raised", "write_raised"}

\* C20: a unit that leaves run_agent, whichever way it ends (returned,
\* callback raised, terminal write raised), stays as an ended unit holding
\* its slot; the slot comes back exactly when that unit's done callback
\* runs, one slot per unit; and with no unit left and no task held all
\* MAX_CONCURRENT_WORKERS slots are free.
SlotReleasedOnce ==
    [][/\ \A u \in UnitsNow :
             (u.pc = "agent" /\ CopiesIn(u, units') < CopiesIn(u, units)) =>
                 /\ \E how \in Endings : EndedInStep(Ended(u, how), how)
                 /\ sem' = sem
       /\ \A u \in UnitsNow :
             (u.pc = "done" /\ CopiesIn(u, units') < CopiesIn(u, units)) =>
                 /\ sem' = sem + 1
                 /\ units' = units (-) OneUnit(u)
       /\ sem' > sem =>
             \E u \in UnitsNow : u.pc = "done" /\ units' = units (-) OneUnit(u)
       /\ (units' = EmptyBag /\ held' = NoTask) => sem' = MAX_CONCURRENT_WORKERS]_vars

\* Nothing is in flight and every slot is free again after the three kinds
\* of ending: one task returned (SUCCESS), one failed and was retried, and
\* the retried attempt ended with the terminal write raising (its row is
\* still RUNNING, with no unit).
SlotReleasedOnceWitness ==
    /\ units = EmptyBag /\ held = NoTask /\ sem = MAX_CONCURRENT_WORKERS
    /\ nRetry = 1
    /\ \E a, b \in DOMAIN rows :
          rows[a].status = "RUNNING" /\ rows[b].status = "SUCCESS"

HasStatus(id, S) == id \in DOMAIN rows /\ rows[id].status \in S

\* C21: with callbacks that terminate and a store that does not fail, every
\* enqueued (PENDING) task is eventually claimed, every claimed (RUNNING)
\* task eventually is SUCCESS or FAILED, and each attempt makes exactly one
\* terminal write: a row turns SUCCESS or FAILED in the very step in which a
\* unit of that task ends, from RUNNING, and in no other step.
EveryTaskServed ==
    /\ \A id \in 1..MaxTasks :
          /\ HasStatus(id, {"PENDING"}) ~> HasStatus(id, {"RUNNING"})
          /\ HasStatus(id, {"RUNNING"}) ~> HasStatus(id, {"SUCCESS", "FAILED"})
    /\ [][\A id \in DOMAIN rows :
             LET ended == \E v \in BagToSet(units') :
                             /\ v.task.id = id
                             /\ \E how \in Endings : EndedInStep(v, how)
                 written == /\ rows'[id] # rows[id]
                            /\ rows'[id].status \in {"SUCCESS", "FAILED"}
             IN  /\ ended <=> written
                 /\ written => rows[id].status = "RUNNING"]_vars

\* Both tasks are finished, one of them after a failed attempt and a retry,
\* and nothing is left in flight.
EveryTaskServedWitness ==
    /\ nextId = MaxTasks /\ nRetry = MaxRetries
    /\ \A id \in DOMAIN rows : rows[id].status \in {"SUCCESS", "FAILED"}
    /\ units = EmptyBag /\ held = NoTask /\ sem = MAX_CONCURRENT_WORKERS

\* C22: claim_pending_task raising never ends the worker loop, and once the
\* store has recovered (the write lock is free for good) every PENDING task
\* is claimed.
PollingRecovers ==
    /\ [][wpc = "backoff" /\ wpc' # wpc => wpc' = "poll"]_vars
    /\ <>[](dbLock = NoThread) =>
           \A id \in 1..MaxTasks :
               HasStatus(id, {"PENDING"}) ~> HasStatus(id, {"RUNNING"})

-----------------------------------------------------------------------------
(* Properties of the task table.                                            *)

\* C23: after any sequence of enqueue, claim, status update, retry and
\* delete, the counts of get_queue_stats() add up to the number of rows.
StatsConsistent ==
    LET stats == get_queue_stats(rows)
    IN  stats["PENDING"] + stats["RUNNING"] + stats["SUCCESS"] + stats["FAILED"]
            = Cardinality(DOMAIN rows)

\* A row was deleted, the other one is RUNNING after a retry.
StatsConsistentWitness ==
    /\ nextId = MaxTasks /\ Cardinality(DOMAIN rows) = nextId - 1
    /\ nRetry = 1
    /\ \E id \in DOMAIN rows : rows[id].status = "RUNNING"

\* C24: update_task_status(id, SUCCESS, result = r2) on a task that a
\* previous call left in SUCCESS (with result r1) adds no row, changes no
\* other row and leaves the task in SUCCESS with result r2 and error null.
TerminalIdempotent ==
    [][\A id \in DOMAIN rows :
          (/\ resp' # resp /\ resp'.op = "update"
           /\ resp'.task_id = id /\ resp'.status = "SUCCESS"
           /\ rows[id].status = "SUCCESS") =>
              /\ DOMAIN rows' = DOMAIN rows
              /\ rows'[id].status = "SUCCESS"
              /\ rows'[id].result = resp'.result
              /\ rows'[id].error = Null
              /\ \A j \in DOMAIN rows \ {id} : rows'[j] = rows[j]]_vars

\* SUCCESS was written with r2 over a SUCCESS with r1, beside another row.
TerminalIdempotentWitness ==
    /\ resp.op = "update" /\ resp.status = "SUCCESS" /\ resp.result = "r2"
    /\ resp.task_id \in DOMAIN resp.before
    /\ resp.before[resp.task_id].status = "SUCCESS"
    /\ resp.before[resp.task_id].result = "r1"
    /\ rows[resp.task_id].result = "r2"
    /\ Cardinality(DOMAIN rows) = 2

-----------------------------------------------------------------------------
(* Properties of the event bus.                                             *)

\* C25: every status transition of a task (by claim, by a terminal write,
\* by retry) pushes the event {task_id, status} to every subscribed
\* observer whose queue is not full.
EveryTransitionPushed ==
    [][\A id \in DOMAIN rows \cap DOMAIN rows' :
          rows'[id].status # rows[id].status =>
              \A q \in DOMAIN subs :
                  Len(subs[q]) < SSE_QUEUE_MAXSIZE =>
                      /\ q \in DOMAIN subs'
                      /\ subs'[q] = Append(subs[q], Event(id, rows'[id].status))]_vars

\* C26: the event bus never affects the queue.  A step that changes the bus
\* without a unit ending (subscribe, unsubscribe, an observer reading)
\* leaves rows, units and worker loop alone.  A terminal write stores its
\* status whatever the observers' queues hold, changes no other row and
\* leaves the worker loop as it was; the observers whose queue is full are
\* dropped without waiting and the others get the event.
BroadcastHarmless ==
    [][/\ (subs' # subs /\ units' = units) =>
              /\ rows' = rows
              /\ wpc' = wpc /\ held' = held /\ sem' = sem
       /\ \A v \in BagToSet(units') : \A how \in {"completed", "raised"} :
              EndedInStep(v, how) =>
                  /\ rows'[v.task.id].status =
                         (IF how = "raised" THEN "FAILED" ELSE "SUCCESS")
                  /\ \A id \in DOMAIN rows \ {v.task.id} : rows'[id] = rows[id]
                  /\ wpc' = wpc /\ held' = held /\ sem' = sem
                  /\ DOMAIN subs' =
                         {q \in DOMAIN subs : Len(subs[q]) < SSE_QUEUE_MAXSIZE}
                  /\ \A q \in DOMAIN subs' :
                         subs'[q] = Append(subs[q],
                                           Event(v.task.id, rows'[v.task.id].status))]_vars

\* A unit has ended and another is about to write while the observer's
\* queue is full.
BroadcastHarmlessWitness ==
    /\ \E q \in DOMAIN subs : Len(subs[q]) = SSE_QUEUE_MAXSIZE
    /\ \E u, v \in UnitsNow : u.pc = "agent" /\ v.pc = "done"

-----------------------------------------------------------------------------
(* Properties of the audit chain.                                          *)

TamperDetected ==
    (resp.op = "chain_status" /\ resp.over = chain) =>
        IF tampered = 0
        THEN \/ resp.outcome = "empty" /\ Len(chain) = 0
             \/ resp.outcome = "report" /\ resp.broken_links = 0
        ELSE resp.outcome = "report" /\ resp.broken_links = 1

-----------------------------------------------------------------------------
(* Properties of the vault guard.                                          *)

\* C30: what the shell tool sends to the container after substituting a
\* vault token has passed the allowlist guard; with an allowlist set, a
\* command with a vault token and a URL on a host that is neither an
\* allowed domain nor a subdomain of one is never sent.
GuardedBeforeExecution ==
    \A k \in 1..Len(shellLog) :
        LET e == shellLog[k]
        IN  (e.outcome = "executed" /\ IsVaultToken(e.command.arg)) =>
                /\ ~apply_guarded(e.command, allowed).raised
                /\ ~(/\ allowed # {}
                     /\ e.command.host # NoUrl
                     /\ ~hostname_is_allowed(e.command.host, allowed))

-----------------------------------------------------------------------------
(* Properties of the store under failures.                                 *)

\* C31: a claim that fails is invisible.  The step in which a call of
\* claim_pending_task raises changes no row, and a task is RUNNING only if
\* some call returned it.
FailedClaimInvisible ==
    /\ [](\A id \in DOMAIN rows :
            rows[id].status = "RUNNING" =>
                \E c \in Threads : callers[c].pc = "done" /\ callers[c].ret.id = id)
    /\ [][\A c \in Threads :
            (callers[c].pc # "raised" /\ callers'[c].pc = "raised") => rows' = rows]_vars

\* A call raised after it had selected a task, and another call then
\* returned that task.
FailedClaimInvisibleWitness ==
    \E c, d \in Threads :
        /\ callers[c].pc = "raised" /\ callers[c].row # 0
        /\ callers[d].pc = "done" /\ callers[d].ret.id = callers[c].row
        /\ rows[callers[c].row].status = "RUNNING"

\* C33: in every state reached by enqueue, claim, the dispatcher's terminal
\* writes and retry, a row's result is non-null only if its status is
\* SUCCESS and its error is non-null only if its status is FAILED.
ResultAndErrorMatchStatus ==
    \A id \in DOMAIN rows :
        /\ rows[id].result # Null => rows[id].status = "SUCCESS"
        /\ rows[id].error # Null => rows[id].status = "FAILED"

\* A task failed, was retried and then succeeded, and another task failed.
ResultAndErrorMatchStatusWitness ==
    /\ nRetry = 1
    /\ \E a, b \in DOMAIN rows :
          /\ rows[a].status = "SUCCESS" /\ rows[a].result # Null
          /\ Len(rows[a].payload.instruction) >= 1 /\ rows[a].error = Null
          /\ rows[b].status = "FAILED" /\ rows[b].error # Null

\* C32: a store that is locked only for a while does not lose a task at
\* its terminal write.  If from some moment on no other connection holds
\* the write lock, every RUNNING task reaches SUCCESS or FAILED.
TerminalWriteSurvivesLock ==
    (<>[](dbLock = NoThread)) =>
        \A id \in 1..MaxTasks :
            HasStatus(id, {"RUNNING"}) ~> HasStatus(id, {"SUCCESS", "FAILED"})

-----------------------------------------------------------------------------
(* SpecCrash: the dispatcher of SpecLive in a process that may exit at any  *)
(* moment and be started again.  The trigger_tasks and idempotency_log     *)
(* tables are files and survive; the worker loop, its semaphore, the       *)
(* dispatched coroutines and the stream subscribers are memory and do not. *)
(* The lifespan hook runs init_db (CREATE TABLE IF NOT EXISTS) and         *)
(* start_queue_worker, which creates a fresh _worker_loop.                 *)

crashRest == <<keyVars, chainVars, shellVars, trigVars, lastOp, att, extCalls, dbLock,
               connTxn, callers>>

\* A start-up that puts the rows left RUNNING back to PENDING.
CrashRequeues ==
    /\ boots < MaxCrashes
    /\ boots' = boots + 1
    /\ rows' = [i \in DOMAIN rows |->
                   IF rows[i].status = "RUNNING"
                   THEN [rows[i] EXCEPT !.status = "PENDING"] ELSE rows[i]]
    /\ wpc' = "poll" /\ held' = NoTask /\ sem' = MAX_CONCURRENT_WORKERS
    /\ units' = EmptyBag /\ subs' = EmptyFn
    /\ UNCHANGED <<idem, nextId, now, resp, nRetry, crashRest>>

\* The process exits and is started again: nothing is written at start-up
\* but the two CREATE TABLE IF NOT EXISTS.
Crash ==
    /\ boots < MaxCrashes
    /\ boots' = boots + 1
    /\ wpc' = "poll" /\ held' = NoTask /\ sem' = MAX_CONCURRENT_WORKERS
    /\ units' = EmptyBag /\ subs' = EmptyFn
    /\ UNCHANGED <<idem, rows, nextId, now, resp, nRetry, crashRest>>

NextCrash ==
    \/ \E slug \in Slugs : Enqueue(slug)
    \/ WorkerStep
    \/ UnitStep
    \/ \E id \in 1..MaxTasks : Retry(id)
    \/ Crash

SpecCrash == Init /\ [][NextCrash]_vars /\ WF_vars(WorkerStep) /\ WF_vars(UnitStep)

-----------------------------------------------------------------------------
(* Properties of the process restart.                                      *)

\* A RUNNING row that no coroutine of the current process works on.
Orphaned(id) ==
    /\ HasStatus(id, {"RUNNING"})
    /\ held.id # id
    /\ \A u \in UnitsNow : u.task.id # id

CrashStep == boots' = boots + 1

\* C34: crash behaviour.  The restart itself changes no row; a task that was
\* RUNNING when the process exited is afterwards worked on by nobody, stays
\* RUNNING in every later state and is refused by the retry endpoint (400);
\* a task that is PENDING after the restart is eventually claimed.
CrashLeavesRunningStuck ==
    /\ [][CrashStep => /\ rows' = rows
                       /\ \A id \in DOMAIN rows :
                             HasStatus(id, {"RUNNING"}) => Orphaned(id)']_vars
    /\ [][\A id \in DOMAIN rows : Orphaned(id) => Orphaned(id)']_vars
    /\ [](\A id \in DOMAIN rows :
             Orphaned(id) => \A o \in retry_task(rows, idem, id, now) : o.code = 400)
    /\ \A id \in 1..MaxTasks :
          (boots >= 1 /\ HasStatus(id, {"PENDING"})) ~> HasStatus(id, {"RUNNING"})

\* After a restart one task is stuck RUNNING while the restarted worker runs
\* the callback of another one it has claimed.
CrashLeavesRunningStuckWitness ==
    /\ boots = 1
    /\ \E a, b \in DOMAIN rows :
          /\ Orphaned(a)
          /\ HasStatus(b, {"RUNNING"})
          /\ \E u \in UnitsNow : u.task.id = b /\ u.pc = "agent"

-----------------------------------------------------------------------------
(* SpecOrder: the dispatcher under a clock that moves, so that tasks are   *)
(* enqueued and retried at different times.  Every callback fails (only a *)
(* FAILED task can be retried).                                            *)

NextOrder ==
    \/ \E slug \in Slugs : Enqueue(slug)
    \/ ClaimTick
    \/ WorkerStep
    \/ \E u \in UnitsNow : UnitStart(u)
    \/ \E u \in UnitsNow : AgentRaises(u)
    \/ \E u \in UnitsNow : UnitReleased(u)
    \/ \E id \in 1..MaxTasks : Retry(id)

SpecOrder == Init /\ [][NextOrder]_vars

\* C35: a retried task keeps its original created_at (no step changes the
\* created_at of a row), and every claim takes a PENDING task with the oldest
\* created_at, so a retried task is claimed before every PENDING task with a
\* later created_at, whenever the retry happened.
RetriedKeepsItsPlace ==
    /\ [][\A id \in DOMAIN rows :
             id \in DOMAIN rows' /\ rows'[id].created_at = rows[id].created_at]_vars
    /\ [][\A j \in PendingIds(rows) :
             rows'[j].status = "RUNNING"
               => \A i \in PendingIds(rows) : rows[j].created_at <= rows[i].created_at]_vars

\* Task 1 failed and was retried after task 2 had been enqueued; it has been
\* claimed again while task 2 is still PENDING.
RetriedKeepsItsPlaceWitness ==
    /\ nRetry = 1
    /\ DOMAIN rows = {1, 2}
    /\ rows[1].status = "RUNNING"
    /\ rows[2].status = "PENDING"
    /\ rows[1].created_at < rows[2].created_at
    /\ rows[2].created_at <= rows[1].updated_at

-----------------------------------------------------------------------------
(* SpecDelete: the dispatcher of SpecLive with an operator who retries and *)
(* deletes tasks, whatever their status, while the worker loop and the     *)
(* callbacks go on.                                                        *)

NextDelete ==
    \/ \E slug \in Slugs : Enqueue(slug)
    \/ WorkerStep
    \/ UnitStep
    \/ \E id \in 1..MaxTasks : Retry(id)
    \/ \E id \in 1..MaxTasks : StoreDelete(id)

SpecDelete == Init /\ [][NextDelete]_vars

\* The ids minted so far whose row is gone.
DeletedIds == (1..nextId) \ DOMAIN rows

\* C36: a deleted task is gone for good, whatever its status was.  No step
\* brings back the row of a deleted id, and the step in which the callback of
\* a deleted task ends (its terminal update_task_status) changes no row at
\* all, so lists and stats, which read the rows, never show the task again.
DeletedStaysDeleted ==
    /\ [][DeletedIds \subseteq (1..nextId') \ DOMAIN rows']_vars
    /\ [][\A u \in UnitsNow :
             (u.pc = "agent" /\ u.task.id \in DeletedIds /\ u \notin BagToSet(units'))
               => /\ rows' = rows
                  /\ get_queue_stats(rows') = get_queue_stats(rows)]_vars

\* The callback of a task deleted while RUNNING has finished, next to a task
\* that is still in the table.
DeletedStaysDeletedWitness ==
    /\ \E u \in UnitsNow : u.pc = "done" /\ u.task.id \in DeletedIds
    /\ \E id \in DOMAIN rows : rows[id].status \in {"RUNNING", "SUCCESS"}

-----------------------------------------------------------------------------
(* Properties of the stream subscribers.                                   *)

\* A step that broadcasts: the terminal write of a RUNNING task.
TerminalWriteStep(id) ==
    /\ HasStatus(id, {"RUNNING"})
    /\ id \in DOMAIN rows' /\ rows'[id].status \in {"SUCCESS", "FAILED"}

\* C37: at a broadcast, a subscriber whose queue is full is removed from the
\* subscriber set without getting the event, and every other subscriber
\* gets it; a removed subscriber's queue is never put to again (only a new
\* subscription, with a new empty queue, brings the name back); no queue
\* ever holds more than SSE_QUEUE_MAXSIZE events.
FullSubscriberDropped ==
    /\ [][\A id \in DOMAIN rows : TerminalWriteStep(id) =>
             \A q \in DOMAIN subs :
                 IF Len(subs[q]) >= SSE_QUEUE_MAXSIZE
                 THEN q \notin DOMAIN subs'
                 ELSE /\ q \in DOMAIN subs'
                      /\ subs'[q] = Append(subs[q], Event(id, rows'[id].status))]_vars
    /\ [][\A q \in DOMAIN subs' \ DOMAIN subs : subs'[q] = <<>>]_vars
    /\ [](\A q \in DOMAIN subs : Len(subs[q]) <= SSE_QUEUE_MAXSIZE)

\* One subscriber's queue is full, the other's is not, and a task is RUNNING
\* after two terminal writes and a retry: the next terminal write drops the
\* first subscriber and reaches the second.
FullSubscriberDroppedWitness ==
    /\ DOMAIN subs = Subscribers
    /\ Len(subs["ui1"]) = SSE_QUEUE_MAXSIZE
    /\ Len(subs["ui2"]) < SSE_QUEUE_MAXSIZE
    /\ nRetry = 1
    /\ \E id \in DOMAIN rows : rows[id].status = "RUNNING"

-----------------------------------------------------------------------------
(* SpecTrigger: the in-memory trigger queue of routers/triggers.py.  Each  *)
(* webhook request runs headless_trigger on the event loop; an accepted    *)
(* request leaves a background task, queued_background_agent, which waits  *)
(* for a slot of _webhook_semaphore and then runs the agent.  Between two  *)
(* awaits a coroutine runs alone, so each action below is the code between *)
(* two awaits.                                                             *)

trigRest == <<keyVars, idemVars, queueVars, chainVars, shellVars, boots>>

JobIds == DOMAIN jobs
JobsAt(pcs) == {j \in JobIds : jobs[j] \in pcs}
AddJob(pc) == [j \in JobIds \cup {Cardinality(JobIds) + 1} |->
                  IF j \in JobIds THEN jobs[j] ELSE pc]

\* headless_trigger: 429 when the pending counter has reached MAX_QUEUE_SIZE,
\* else the counter goes up and the background task is added.
headless_trigger ==
    /\ Cardinality(JobIds) < MaxWebhooks
    /\ IF pending_webhook_count >= MAX_QUEUE_SIZE
       THEN /\ jobs' = AddJob("rejected")
            /\ UNCHANGED pending_webhook_count
       ELSE /\ jobs' = AddJob("accepted")
            /\ pending_webhook_count' = pending_webhook_count + 1
    /\ UNCHANGED <<active_webhook_count, webhook_semaphore, trigRest>>

\* The body of "async with sem" up to the await of run_agent.
EnterSlot(j) ==
    /\ webhook_semaphore' = webhook_semaphore - 1
    /\ pending_webhook_count' = pending_webhook_count - 1
    /\ active_webhook_count' = active_webhook_count + 1
    /\ jobs' = [jobs EXCEPT ![j] = "running"]
    /\ UNCHANGED trigRest

\* queued_background_agent starts after the response was sent: with a free
\* slot acquire() returns at once, else the coroutine waits.
queued_background_agent(j) ==
    /\ jobs[j] = "accepted"
    /\ IF webhook_semaphore > 0
       THEN EnterSlot(j)
       ELSE /\ jobs' = [jobs EXCEPT ![j] = "waiting"]
            /\ UNCHANGED <<active_webhook_count, pending_webhook_count,
                           webhook_semaphore, trigRest>>

\* A release woke the waiter: acquire() returns.
SlotAcquired(j) ==
    /\ jobs[j] = "waiting"
    /\ webhook_semaphore > 0
    /\ EnterSlot(j)

\* A wrapper without try/finally: an agent run that raises leaves the active
\* counter where it was.
AgentRunEndsNoFinally(j, how) ==
    /\ jobs[j] = "running"
    /\ active_webhook_count' =
           IF how = "raised" THEN active_webhook_count ELSE active_webhook_count - 1
    /\ webhook_semaphore' = webhook_semaphore + 1
    /\ jobs' = [jobs EXCEPT ![j] = how]
    /\ UNCHANGED <<pending_webhook_count, trigRest>>

\* run_agent returns or raises: the finally clause takes the run off the
\* active counter and leaving "async with" releases the slot.
AgentRunEnds(j, how) ==
    /\ jobs[j] = "running"
    /\ active_webhook_count' = active_webhook_count - 1
    /\ webhook_semaphore' = webhook_semaphore + 1
    /\ jobs' = [jobs EXCEPT ![j] = how]
    /\ UNCHANGED <<pending_webhook_count, trigRest>>

NextTrigger ==
    \/ headless_trigger
    \/ \E j \in JobIds : queued_background_agent(j)
    \/ \E j \in JobIds : SlotAcquired(j)
    \/ \E j \in JobIds, how \in {"returned", "raised"} : AgentRunEnds(j, how)

SpecTrigger == Init /\ [][NextTrigger]_vars

-----------------------------------------------------------------------------
(* Properties of the trigger queue.                                        *)

\* C38: the two counters of the trigger queue are exact.  The active counter
\* is the number of agent runs in progress and lies between 0 and
\* MAX_CONCURRENT_WEBHOOKS; the pending counter is the number of accepted
\* jobs that have not started and is never negative; and a request is
\* answered 429 exactly when the pending counter has reached MAX_QUEUE_SIZE.
TriggerCountersExact ==
    /\ [](/\ active_webhook_count = Cardinality(JobsAt({"running"}))
          /\ active_webhook_count \in 0..MAX_CONCURRENT_WEBHOOKS
          /\ pending_webhook_count = Cardinality(JobsAt({"accepted", "waiting"}))
          /\ pending_webhook_count \in 0..MAX_QUEUE_SIZE)
    /\ [][\A j \in DOMAIN jobs' \ DOMAIN jobs :
             jobs'[j] = "rejected" <=> pending_webhook_count = MAX_QUEUE_SIZE]_vars

\* One agent run in progress, the queue full, a request rejected and an
\* earlier run ended with an exception.
TriggerCountersExactWitness ==
    /\ JobsAt({"rejected"}) # {}
    /\ JobsAt({"raised"}) # {}
    /\ active_webhook_count = MAX_CONCURRENT_WEBHOOKS
    /\ pending_webhook_count = MAX_QUEUE_SIZE

-----------------------------------------------------------------------------
(* Properties of the instruction handed to the execution callback.         *)

\* How many lines of the enriched instruction e name the tool: the lines of
\* the retry notes the payload carries plus the lines of the context that
\* _build_idempotency_prompt appends.
TimesListed(e, tool) ==
    Cardinality({p \in (1..Len(e.instruction)) \X (1..MaxExtCalls) :
                    /\ p[2] <= Len(e.instruction[p[1]].steps)
                    /\ e.instruction[p[1]].steps[p[2]].tool = tool})
      + Cardinality({n \in 1..Len(e.retry_context) : e.retry_context[n].tool = tool})

\* C39: on every attempt the instruction built for the execution callback
\* lists each COMPLETED step of the task exactly once, and with no completed
\* step it carries no skip-completed-steps context.
EachCompletedStepListedOnce ==
    [][\A v \in BagToSet(units') \ UnitsNow :
          v.pc = "agent" =>
              LET done == CompletedOf(idem, TaskIdStr(v.task.id))
              IN  /\ \A k \in done : TimesListed(v.enriched, idem[k].tool_name) = 1
                  /\ done = {} =>
                        /\ v.enriched.retry_context = <<>>
                        /\ \A i \in 1..Len(v.enriched.instruction) :
                              v.enriched.instruction[i].kind # "retry_note"]_vars

-----------------------------------------------------------------------------
(* SpecSlots: the dispatcher of SpecLive (no crash, no delete, a store     *)
(* that does not fail) with one task more than the pool has slots.         *)

MaxBacklog == MAX_CONCURRENT_WORKERS + 1

EnqueueBacklog(slug) ==
    /\ nextId < MaxBacklog
    /\ rows' = enqueue_task(rows, nextId + 1, slug, Payload(<<BasePart>>), now)
    /\ nextId' = nextId + 1
    /\ UNCHANGED <<idem, now, wpc, held, sem, units, subs, resp, nRetry, specRest>>

NextSlots ==
    \/ \E slug \in Slugs : EnqueueBacklog(slug)
    \/ WorkerStep
    \/ UnitStep
    \/ \E id \in 1..MaxBacklog : Retry(id)

SpecSlots == Init /\ [][NextSlots]_vars

-----------------------------------------------------------------------------
(* Properties of the pool under a backlog.                                 *)

RunningIds == {id \in DOMAIN rows : rows[id].status = "RUNNING"}

\* The RUNNING tasks whose callback has not been created yet.
WaitingForSlot ==
    {id \in RunningIds : \A u \in UnitsNow : u.task.id = id => u.pc = "done"}

\* C40: with no crash, delete or store failure at most one task is RUNNING
\* without a callback, namely the one the worker loop claimed and holds
\* while it waits for a slot, so there are never more than
\* MAX_CONCURRENT_WORKERS + 1 RUNNING rows.
OneTaskWaitsForSlot ==
    /\ Cardinality(WaitingForSlot) <= 1
    /\ WaitingForSlot \subseteq {held.id}
    /\ WaitingForSlot # {} => wpc = "acquire"
    /\ Cardinality(RunningIds) <= MAX_CONCURRENT_WORKERS + 1

\* Every slot is taken by a running callback and one more task is RUNNING,
\* held by the worker loop.
OneTaskWaitsForSlotWitness ==
    /\ Cardinality(RunningIds) = MAX_CONCURRENT_WORKERS + 1
    /\ Cardinality(WaitingForSlot) = 1
    /\ sem = 0

=============================================================================
